---------------------------- MODULE Spec2Model ----------------------------
(***************************************************************************)
(* Model of the physics core of F1Hackathon-main: the aerodynamic force    *)
(* model (physics/aerodynamics.py), the lap-time simulator                 *)
(* (physics/lap_time_simulator.py), the circuit analyzer                   *)
(* (physics/circuit_analyzer.py) and the track registry                    *)
(* (config/track_configs.py).                                              *)
(*                                                                         *)
(* Numbers.  The program computes in IEEE doubles; the model computes in   *)
(* scaled integers, every division rounding down.  Units:                  *)
(*   velocity                          cm/s      (50 m/s is 5000)          *)
(*   position, distance, radius, arc   mm                                  *)
(*   force                             N                                   *)
(*   pressure                          Pa                                  *)
(*   lap / corner / straight time      1/10000 s                           *)
(*   integrator clock ("time")         steps of dt = 0.1 s                 *)
(*   drag and lift coefficients        1/100                               *)
(*   ground-effect and wing factors,                                       *)
(*   effective lift coefficient,                                           *)
(*   ratios, risk scores, Cp           1/10000                             *)
(*   ride height                       1/100 mm                            *)
(*   wing angle, yaw angle             1/10 degree                         *)
(*   frontal area                      1/100 m^2                           *)
(*   tire friction                     1/10                                *)
(*   circuit length                    m         (5.793 km is 5793)        *)
(* A Python exception is a value: a function that can raise returns        *)
(* Return(<result>) or Raise(<exception name>).                            *)
(***************************************************************************)
EXTENDS Integers, Sequences, FiniteSets, TLC

VARIABLES an, sim, last, arg, out

vars == <<an, sim, last, arg, out>>

---------------------------------------------------------------------------
(* Values shared by all components *)

\* No value: Python's None.
None == [t |-> "NoneType", v |-> "None"]

\* A Python str; kept apart from an Enum member carrying the same text.
Str(s) == [t |-> "str", v |-> s]

\* The outcome of a call that can raise: the value returned, or the
\* exception leaving the function.
Return(v) == [raised |-> FALSE, value |-> v]

Raise(e) == [raised |-> TRUE, exc |-> e]

Min(a, b) == IF a < b THEN a ELSE b

Max(a, b) == IF a > b THEN a ELSE b

Abs(a) == IF a < 0 THEN -a ELSE a

\* dict.get(key, default)
Get(d, k, default) == IF k \in DOMAIN d THEN d[k] ELSE default

---------------------------------------------------------------------------
(* config/settings.py *)

\* AIR_DENSITY = 1.225 kg/m^3, kept as the exact fraction 49/40.
AIR_DENSITY_NUM == 49

AIR_DENSITY_DEN == 40

\* GRAVITY = 9.81 m/s^2, in 1/100.
GRAVITY == 981

\* F1_CAR_MASS = 798 kg.
F1_CAR_MASS == 798

---------------------------------------------------------------------------
(* Numeric helpers standing for the math module *)

\* math.pi, as the fraction 355/113 (3.1415929...).
PI_NUM == 355

PI_DEN == 113

\* Largest r with r*r <= n, by bisection on lo..hi: math.sqrt on a
\* non-negative argument, rounded down.
RECURSIVE SqrtSearch(_, _, _)
SqrtSearch(n, lo, hi) ==
  IF lo >= hi THEN lo
  ELSE LET mid == (lo + hi + 1) \div 2
       IN  IF mid * mid <= n THEN SqrtSearch(n, mid, hi)
                             ELSE SqrtSearch(n, lo, mid - 1)

\* math.sqrt(n): raises ValueError ("math domain error") on a negative n.
\* 46340 is the largest root whose square fits a 32-bit integer.
Sqrt(n) ==
  IF n < 0 THEN Raise("ValueError") ELSE Return(SqrtSearch(n, 0, 46340))

\* math.exp(-x) for x >= 0 in 1/10000, result in 1/10000: the alternating
\* power series to 12 terms, term k being term k-1 times x / k.
RECURSIVE ExpNegSeries(_, _, _, _)
ExpNegSeries(x, k, term, acc) ==
  IF k > 12 THEN acc
  ELSE LET t == (term * x) \div (k * 10000)
       IN  ExpNegSeries(x, k + 1, t, IF k % 2 = 1 THEN acc - t ELSE acc + t)

ExpNeg(x) == ExpNegSeries(x, 1, 10000, 10000)

\* math.sin(x) for x in 1/10000 rad, result in 1/10000: the power series
\* x - x^3/3! + x^5/5! - ... to 12 terms, term k being term k-1 times
\* x^2/((2k)(2k+1)).
RECURSIVE SinSeries(_, _, _, _)
SinSeries(x, k, term, acc) ==
  IF k > 12 THEN acc
  ELSE LET t == (((term * x) \div (10000 * 2 * k)) * x) \div (10000 * (2 * k + 1))
       IN  SinSeries(x, k + 1, t, IF k % 2 = 1 THEN acc - t ELSE acc + t)

Sin(x) == SinSeries(x, 1, x, x)

\* math.radians(angle) for an angle in 1/10 degree, result in 1/10000 rad.
Radians(a) == (a * 1000 * PI_NUM) \div (180 * PI_DEN)

---------------------------------------------------------------------------
(* physics/aerodynamics.py *)

\* a / b in Python: ZeroDivisionError on a zero divisor.
Div(a, b) == IF b = 0 THEN Raise("ZeroDivisionError") ELSE Return(a \div b)

\* The AeroState dataclass; yaw_angle and ground_effect_active take their
\* defaults unless overridden with EXCEPT.
AeroState(velocity, drag_coefficient, lift_coefficient_front, lift_coefficient_rear, frontal_area, ride_height_front, ride_height_rear, wing_angle_front, wing_angle_rear) ==
  [ velocity |-> velocity,
    drag_coefficient |-> drag_coefficient,
    lift_coefficient_front |-> lift_coefficient_front,
    lift_coefficient_rear |-> lift_coefficient_rear,
    frontal_area |-> frontal_area,
    ride_height_front |-> ride_height_front,
    ride_height_rear |-> ride_height_rear,
    wing_angle_front |-> wing_angle_front,
    wing_angle_rear |-> wing_angle_rear,
    yaw_angle |-> 0,
    ground_effect_active |-> TRUE ]

\* 0.5 * air_density * velocity ** 2, in Pa.
HalfRhoVSquared(velocity) ==
  ((((velocity * velocity) \div 100) * AIR_DENSITY_NUM)
      \div (2 * AIR_DENSITY_DEN)) \div 100

\* Drag force in N.
calculate_drag_force(state) ==
  LET cd_adjusted ==
        (state.drag_coefficient * (1000 + 2 * Abs(state.yaw_angle))) \div 1000
      drag == (((HalfRhoVSquared(state.velocity) * cd_adjusted) \div 100)
                 * state.frontal_area) \div 100
  IN  drag

\* The multiplier with the optimal zone rising with the ride height.
_ground_effect_factor_rising(ride_height_mm) ==
  LET optimal_height == 1200
  IN  IF ride_height_mm < 500
        THEN 8000 + 4 * ride_height_mm
      ELSE IF ride_height_mm <= optimal_height
        THEN 10000 + (3000 * ride_height_mm) \div optimal_height
      ELSE LET decay == ExpNeg((ride_height_mm - optimal_height) * 2)
           IN  10000 + (3000 * decay) \div 10000

\* Ground-effect multiplier of a ride height.
_ground_effect_factor(ride_height_mm) ==
  LET optimal_height == 1200
  IN  IF ride_height_mm < 500
        THEN 8000 + 4 * ride_height_mm
      ELSE IF ride_height_mm <= optimal_height
        THEN 10000 + (3000 * (optimal_height - ride_height_mm)) \div optimal_height
      ELSE LET decay == ExpNeg((ride_height_mm - optimal_height) * 2)
           IN  10000 + (3000 * decay) \div 10000

\* The efficiency with the stall starting above 40 degrees instead of at
\* 40 degrees.
_wing_efficiency_stalling_late(angle_degrees) ==
  LET stall_angle == 400
  IN  IF angle_degrees <= stall_angle
        THEN LET efficiency == 5000 + 20 * angle_degrees
             IN  Min(efficiency, 10000)
        ELSE 3000

\* Wing efficiency of a wing angle.
_wing_efficiency(angle_degrees) ==
  LET stall_angle == 400
  IN  IF angle_degrees < stall_angle
        THEN LET efficiency == 5000 + 20 * angle_degrees
             IN  Min(efficiency, 10000)
        ELSE 3000

\* <<front_downforce, rear_downforce, total_downforce>> in N.
calculate_downforce(state) ==
  LET ground_effect_front == _ground_effect_factor(state.ride_height_front)
      ground_effect_rear == _ground_effect_factor(state.ride_height_rear)
      wing_efficiency_front == _wing_efficiency(state.wing_angle_front)
      wing_efficiency_rear == _wing_efficiency(state.wing_angle_rear)
      cl_front_eff ==
        (((state.lift_coefficient_front * ground_effect_front) \div 100)
            * wing_efficiency_front) \div 10000
      cl_rear_eff ==
        (((state.lift_coefficient_rear * ground_effect_rear) \div 100)
            * wing_efficiency_rear) \div 10000
      dynamic_pressure ==
        (HalfRhoVSquared(state.velocity) * state.frontal_area) \div 100
      front_downforce == (dynamic_pressure * cl_front_eff) \div 10000
      rear_downforce == (dynamic_pressure * cl_rear_eff) \div 10000
      total_downforce == front_downforce + rear_downforce
  IN  <<front_downforce, rear_downforce, total_downforce>>

\* The ratio with the guard admitting a drag of 0.
calculate_lift_to_drag_ratio_dividing(state) ==
  LET total_downforce == calculate_downforce(state)[3]
      drag == calculate_drag_force(state)
  IN  IF drag >= 0 THEN Div(total_downforce * 10000, drag) ELSE Return(0)

\* L/D ratio, guarded against a zero drag.
calculate_lift_to_drag_ratio(state) ==
  LET total_downforce == calculate_downforce(state)[3]
      drag == calculate_drag_force(state)
  IN  IF drag > 0 THEN Div(total_downforce * 10000, drag) ELSE Return(0)

\* Front downforce as a percentage of the total (50.0 is 5000), guarded
\* against a zero total.
calculate_aerodynamic_balance(state) ==
  LET df == calculate_downforce(state)
      front_df == df[1]
      total_df == df[3]
  IN  IF total_df > 0 THEN Div(front_df * 10000, total_df) ELSE Return(5000)

\* np.linspace(0, 1, n_points): n_points positions, the single position 0
\* when n_points = 1.
Linspace01(n_points) ==
  [ i \in 1..n_points |->
      IF n_points = 1 THEN 0 ELSE ((i - 1) * 10000) \div (n_points - 1) ]

\* The pressure coefficient at one position along the car.
PressureCoefficient(pos) ==
  IF pos < 1000 THEN 8000 - 8 * pos
  ELSE IF pos < 3000 THEN -3000 - (15 * (pos - 1000)) \div 10
  ELSE IF pos < 7000
    THEN -6000 - (8000 * Sin(((pos - 3000) * PI_NUM * 10) \div (PI_DEN * 4)))
                    \div 10000
  ELSE -10000 + (25 * (pos - 7000)) \div 10

\* Pressure distribution along the car: positions, Cp, pressure (Pa) and
\* the dynamic pressure.
calculate_pressure_distribution(state, n_points) ==
  LET x == Linspace01(n_points)
      p_inf == 101325
      q_inf == HalfRhoVSquared(state.velocity)
      suction == 10000 + (3 * _ground_effect_factor(state.ride_height_rear)) \div 10
      cp == [ i \in 1..n_points |->
                IF state.ground_effect_active /\ x[i] >= 3000 /\ x[i] <= 7000
                  THEN (PressureCoefficient(x[i]) * suction) \div 10000
                  ELSE PressureCoefficient(x[i]) ]
      pressure == [ i \in 1..n_points |-> p_inf + (cp[i] * q_inf) \div 10000 ]
  IN  [ position |-> x,
        pressure_coefficient |-> cp,
        pressure |-> pressure,
        dynamic_pressure |-> q_inf ]

\* Vortex strengths (1/100).
calculate_vortex_generation(state) ==
  LET front_wing_vorticity ==
        ((state.velocity * Sin(Radians(state.wing_angle_front))) \div 10000) * 10
      y250_strength == (front_wing_vorticity * 7) \div 10
      bargeboard_strength == state.velocity * 8
      diffuser_vorticity ==
        (state.velocity * state.lift_coefficient_rear * 5) \div 100
      rear_wing_vorticity ==
        ((state.velocity * Sin(Radians(state.wing_angle_rear))) \div 10000) * 8
      total_vorticity == y250_strength + bargeboard_strength
                           + diffuser_vorticity + rear_wing_vorticity
  IN  [ y250_vortex |-> y250_strength,
        bargeboard_vortices |-> bargeboard_strength,
        diffuser_vortices |-> diffuser_vorticity,
        rear_wing_vortices |-> rear_wing_vorticity,
        total_vorticity |-> total_vorticity ]

\* DRS deltas: drag_reduction and downforce_loss in 1/10000, speed_gain in
\* 1/100 km/h.  With DRS open the speed gain divides by the drag force.
calculate_drs_effect(state, drs_open) ==
  IF ~drs_open
    THEN Return([ drag_reduction |-> 0, downforce_loss |-> 0, speed_gain |-> 0 ])
    ELSE LET drag_reduction == 10 * state.drag_coefficient
             downforce_loss == 15 * state.lift_coefficient_rear
             drag_normal == calculate_drag_force(state)
             drag_drs == drag_normal * 9
             ratio == Div(drag_drs, drag_normal)
         IN  IF ratio.raised THEN ratio
             ELSE LET root == Sqrt(ratio.value * 1000 * 10000)
                  IN  IF root.raised THEN root
                      ELSE LET speed_gain_kmh ==
                                 (((state.velocity * 36) \div 10)
                                     * (10000 - root.value)) \div 10000
                           IN  Return([ drag_reduction |-> drag_reduction,
                                        downforce_loss |-> downforce_loss,
                                        speed_gain |-> Abs(speed_gain_kmh) ])

\* Reynolds number for a characteristic length in 1/10 m; the viscosity
\* 1.81e-5 Pa s enters as 181.
calculate_reynolds_number(state, characteristic_length) ==
  LET mu == 181
      re == (((((state.velocity * AIR_DENSITY_NUM) \div AIR_DENSITY_DEN)
                 * characteristic_length) * 100) \div mu) * 100
  IN  re

\* The lookup with 'low' as the level of a mapping that has none.
optimize_for_track_defaulting_low(track_characteristics) ==
  LET downforce_level == Get(track_characteristics, "downforce_level", Str("low"))
  IN  IF downforce_level = Str("low")
        THEN [ drag_coefficient |-> 68, cl_front |-> 120, cl_rear |-> 160,
               front_wing_angle |-> 150, rear_wing_angle |-> 180,
               ride_height_front |-> 1500, ride_height_rear |-> 1800 ]
      ELSE IF downforce_level = Str("high")
        THEN [ drag_coefficient |-> 75, cl_front |-> 180, cl_rear |-> 240,
               front_wing_angle |-> 300, rear_wing_angle |-> 350,
               ride_height_front |-> 800, ride_height_rear |-> 1000 ]
      ELSE [ drag_coefficient |-> 70, cl_front |-> 150, cl_rear |-> 200,
             front_wing_angle |-> 220, rear_wing_angle |-> 260,
             ride_height_front |-> 1200, ride_height_rear |-> 1400 ]

\* The canned aero set of a track's downforce level.
optimize_for_track(track_characteristics) ==
  LET downforce_level == Get(track_characteristics, "downforce_level", Str("medium"))
  IN  IF downforce_level = Str("low")
        THEN [ drag_coefficient |-> 68, cl_front |-> 120, cl_rear |-> 160,
               front_wing_angle |-> 150, rear_wing_angle |-> 180,
               ride_height_front |-> 1500, ride_height_rear |-> 1800 ]
      ELSE IF downforce_level = Str("high")
        THEN [ drag_coefficient |-> 75, cl_front |-> 180, cl_rear |-> 240,
               front_wing_angle |-> 300, rear_wing_angle |-> 350,
               ride_height_front |-> 800, ride_height_rear |-> 1000 ]
      ELSE [ drag_coefficient |-> 70, cl_front |-> 150, cl_rear |-> 200,
             front_wing_angle |-> 220, rear_wing_angle |-> 260,
             ride_height_front |-> 1200, ride_height_rear |-> 1400 ]

\* Porpoising risk from the front ride height and the downforce.
calculate_porpoising_risk(state) ==
  LET downforce == calculate_downforce(state)[3]
      min_safe_height == 800
      ride_height_risk ==
        Max(0, ((min_safe_height - state.ride_height_front) * 10000)
                  \div min_safe_height)
      downforce_risk ==
        Min(10000, (downforce * 10000) \div ((F1_CAR_MASS * GRAVITY * 4) \div 100))
      combined_risk == (ride_height_risk * downforce_risk) \div 10000
  IN  [ risk_level |-> IF combined_risk > 7000 THEN "HIGH"
                       ELSE IF combined_risk > 4000 THEN "MEDIUM"
                       ELSE "LOW",
        risk_score |-> combined_risk,
        ride_height_factor |-> ride_height_risk,
        downforce_factor |-> downforce_risk,
        recommendation |-> IF combined_risk > 6000
                             THEN "Increase ride height"
                             ELSE "Configuration acceptable" ]

---------------------------------------------------------------------------
(* config/track_configs.py *)

\* A member of the DownforceLevel enum.  It is a plain Enum, so a member is
\* never equal to the str it carries: LOW # Str("low").
DownforceLevel(value) == [t |-> "DownforceLevel", v |-> value]

LOW == DownforceLevel("low")

MEDIUM == DownforceLevel("medium")

HIGH == DownforceLevel("high")

\* member.value
EnumValue(member) == Str(member.v)

\* The registry, in the order of the dict: <<key, TrackConfig>>.  Of the
\* TrackConfig fields, those the physics core reads.
TRACK_CONFIGS ==
  <<
    << "Bahrain",
       [ name |-> "Bahrain International Circuit",
         circuit_length |-> 5412, corner_count |-> 15,
         downforce_level |-> MEDIUM, longest_straight |-> 1090,
         fastest_quali_2024 |-> Str("1:29.179") ] >>,
    << "Saudi Arabia",
       [ name |-> "Jeddah Corniche Circuit",
         circuit_length |-> 6174, corner_count |-> 27,
         downforce_level |-> MEDIUM, longest_straight |-> 1000,
         fastest_quali_2024 |-> Str("1:27.472") ] >>,
    << "Australia",
       [ name |-> "Albert Park Circuit",
         circuit_length |-> 5278, corner_count |-> 14,
         downforce_level |-> MEDIUM, longest_straight |-> 850,
         fastest_quali_2024 |-> Str("1:15.915") ] >>,
    << "Japan",
       [ name |-> "Suzuka International Racing Course",
         circuit_length |-> 5807, corner_count |-> 18,
         downforce_level |-> MEDIUM, longest_straight |-> 700,
         fastest_quali_2024 |-> Str("1:28.197") ] >>,
    << "China",
       [ name |-> "Shanghai International Circuit",
         circuit_length |-> 5451, corner_count |-> 16,
         downforce_level |-> MEDIUM, longest_straight |-> 1170,
         fastest_quali_2024 |-> Str("1:33.660") ] >>,
    << "Miami",
       [ name |-> "Miami International Autodrome",
         circuit_length |-> 5412, corner_count |-> 19,
         downforce_level |-> MEDIUM, longest_straight |-> 1050,
         fastest_quali_2024 |-> Str("1:27.241") ] >>,
    << "Emilia Romagna",
       [ name |-> "Autodromo Enzo e Dino Ferrari (Imola)",
         circuit_length |-> 4909, corner_count |-> 19,
         downforce_level |-> MEDIUM, longest_straight |-> 650,
         fastest_quali_2024 |-> Str("1:14.746") ] >>,
    << "Monaco",
       [ name |-> "Circuit de Monaco",
         circuit_length |-> 3337, corner_count |-> 19,
         downforce_level |-> HIGH, longest_straight |-> 580,
         fastest_quali_2024 |-> Str("1:10.270") ] >>,
    << "Spain",
       [ name |-> "Circuit de Barcelona-Catalunya",
         circuit_length |-> 4657, corner_count |-> 16,
         downforce_level |-> MEDIUM, longest_straight |-> 1047,
         fastest_quali_2024 |-> Str("1:11.403") ] >>,
    << "Canada",
       [ name |-> "Circuit Gilles Villeneuve",
         circuit_length |-> 4361, corner_count |-> 14,
         downforce_level |-> LOW, longest_straight |-> 900,
         fastest_quali_2024 |-> Str("1:12.000") ] >>,
    << "Austria",
       [ name |-> "Red Bull Ring",
         circuit_length |-> 4318, corner_count |-> 10,
         downforce_level |-> LOW, longest_straight |-> 710,
         fastest_quali_2024 |-> Str("1:04.314") ] >>,
    << "Great Britain",
       [ name |-> "Silverstone Circuit",
         circuit_length |-> 5891, corner_count |-> 18,
         downforce_level |-> MEDIUM, longest_straight |-> 770,
         fastest_quali_2024 |-> Str("1:25.819") ] >>,
    << "Hungary",
       [ name |-> "Hungaroring",
         circuit_length |-> 4381, corner_count |-> 14,
         downforce_level |-> HIGH, longest_straight |-> 650,
         fastest_quali_2024 |-> Str("1:15.227") ] >>,
    << "Belgium",
       [ name |-> "Circuit de Spa-Francorchamps",
         circuit_length |-> 7004, corner_count |-> 19,
         downforce_level |-> LOW, longest_straight |-> 730,
         fastest_quali_2024 |-> Str("1:53.159") ] >>,
    << "Netherlands",
       [ name |-> "Circuit Zandvoort",
         circuit_length |-> 4259, corner_count |-> 14,
         downforce_level |-> HIGH, longest_straight |-> 570,
         fastest_quali_2024 |-> Str("1:09.673") ] >>,
    << "Italy",
       [ name |-> "Autodromo Nazionale di Monza",
         circuit_length |-> 5793, corner_count |-> 11,
         downforce_level |-> LOW, longest_straight |-> 1150,
         fastest_quali_2024 |-> Str("1:19.327") ] >>,
    << "Azerbaijan",
       [ name |-> "Baku City Circuit",
         circuit_length |-> 6003, corner_count |-> 20,
         downforce_level |-> MEDIUM, longest_straight |-> 2200,
         fastest_quali_2024 |-> Str("1:40.445") ] >>,
    << "Singapore",
       [ name |-> "Marina Bay Street Circuit",
         circuit_length |-> 4940, corner_count |-> 19,
         downforce_level |-> HIGH, longest_straight |-> 800,
         fastest_quali_2024 |-> Str("1:29.525") ] >>,
    << "United States",
       [ name |-> "Circuit of The Americas",
         circuit_length |-> 5513, corner_count |-> 20,
         downforce_level |-> MEDIUM, longest_straight |-> 1200,
         fastest_quali_2024 |-> Str("1:32.312") ] >>,
    << "Mexico",
       [ name |-> "Autódromo Hermanos Rodríguez",
         circuit_length |-> 4304, corner_count |-> 17,
         downforce_level |-> HIGH, longest_straight |-> 900,
         fastest_quali_2024 |-> Str("1:15.946") ] >>,
    << "Brazil",
       [ name |-> "Autódromo José Carlos Pace (Interlagos)",
         circuit_length |-> 4309, corner_count |-> 15,
         downforce_level |-> MEDIUM, longest_straight |-> 980,
         fastest_quali_2024 |-> Str("1:10.087") ] >>,
    << "Las Vegas",
       [ name |-> "Las Vegas Street Circuit",
         circuit_length |-> 6120, corner_count |-> 17,
         downforce_level |-> LOW, longest_straight |-> 1900,
         fastest_quali_2024 |-> Str("1:32.312") ] >>,
    << "Qatar",
       [ name |-> "Losail International Circuit",
         circuit_length |-> 5380, corner_count |-> 16,
         downforce_level |-> MEDIUM, longest_straight |-> 1068,
         fastest_quali_2024 |-> Str("1:20.520") ] >>,
    << "Abu Dhabi",
       [ name |-> "Yas Marina Circuit",
         circuit_length |-> 5281, corner_count |-> 16,
         downforce_level |-> MEDIUM, longest_straight |-> 1170,
         fastest_quali_2024 |-> Str("1:22.595") ] >>
  >>

\* str.lower() on the characters the registry and the queries use.
LowerChar(c) ==
  LET upper == "ABCDEFGHIJKLMNOPQRSTUVWXYZ"
      lower == "abcdefghijklmnopqrstuvwxyz"
  IN  IF \E k \in 1..26 : SubSeq(upper, k, k) = c
        THEN LET k == CHOOSE k \in 1..26 : SubSeq(upper, k, k) = c
             IN  SubSeq(lower, k, k)
        ELSE c

RECURSIVE Lower(_)
Lower(s) ==
  IF Len(s) = 0 THEN ""
  ELSE LowerChar(SubSeq(s, 1, 1)) \o Lower(SubSeq(s, 2, Len(s)))

\* q in s, for two strs.
Contains(s, q) ==
  \E k \in 1..(Len(s) - Len(q) + 1) : SubSeq(s, k, k + Len(q) - 1) = q

\* track_name in TRACK_CONFIGS
IsKey(track_name) == \E k \in 1..Len(TRACK_CONFIGS) : TRACK_CONFIGS[k][1] = track_name

\* The partial-match loop with the official circuit name left out of the
\* test.
RECURSIVE PartialMatchKeyOnly(_, _)
PartialMatchKeyOnly(track_name_lower, k) ==
  IF k > Len(TRACK_CONFIGS) THEN None
  ELSE IF Contains(Lower(TRACK_CONFIGS[k][1]), track_name_lower)
         THEN TRACK_CONFIGS[k][2]
         ELSE PartialMatchKeyOnly(track_name_lower, k + 1)

\* The partial-match loop over TRACK_CONFIGS.items(), from item k on.
RECURSIVE PartialMatch(_, _)
PartialMatch(track_name_lower, k) ==
  IF k > Len(TRACK_CONFIGS) THEN None
  ELSE LET key == TRACK_CONFIGS[k][1]
           config == TRACK_CONFIGS[k][2]
       IN  IF Contains(Lower(key), track_name_lower)
                \/ Contains(Lower(config.name), track_name_lower)
             THEN config
             ELSE PartialMatch(track_name_lower, k + 1)

\* The TrackConfig of a name, or None.
get_track_by_name(track_name) ==
  IF IsKey(track_name)
    THEN TRACK_CONFIGS[CHOOSE k \in 1..Len(TRACK_CONFIGS) :
                         TRACK_CONFIGS[k][1] = track_name][2]
    ELSE PartialMatch(Lower(track_name), 1)

---------------------------------------------------------------------------
(* physics/lap_time_simulator.py *)

\* The CarParameters dataclass built from the seven aero fields, the other
\* fields at their defaults.
CarParameters(drag_coefficient, cl_front, cl_rear, front_wing_angle, rear_wing_angle, ride_height_front, ride_height_rear) ==
  [ mass |-> F1_CAR_MASS,
    power |-> 745000,
    frontal_area |-> 140,
    drag_coefficient |-> drag_coefficient,
    cl_front |-> cl_front,
    cl_rear |-> cl_rear,
    tire_friction |-> 20,
    brake_force |-> 25000,
    front_wing_angle |-> front_wing_angle,
    rear_wing_angle |-> rear_wing_angle,
    ride_height_front |-> ride_height_front,
    ride_height_rear |-> ride_height_rear ]

\* The AeroState both phases build from the car at a velocity.
CarState(car_params, velocity) ==
  AeroState(velocity, car_params.drag_coefficient, car_params.cl_front,
            car_params.cl_rear, car_params.frontal_area,
            car_params.ride_height_front, car_params.ride_height_rear,
            car_params.front_wing_angle, car_params.rear_wing_angle)

\* The digits of a natural number.
RECURSIVE Digits(_)
Digits(n) ==
  IF n < 10 THEN SubSeq("0123456789", n + 1, n + 1)
  ELSE Digits(n \div 10) \o SubSeq("0123456789", (n % 10) + 1, (n % 10) + 1)

\* str(n) for an integer.
IntStr(n) == IF n < 0 THEN "-" \o Digits(-n) ELSE Digits(n)

\* Digits of n, zero-padded on the left to at least w characters.
RECURSIVE ZeroPad(_, _)
ZeroPad(str, w) == IF Len(str) >= w THEN str ELSE ZeroPad("0" \o str, w)

\* f"{seconds:06.3f}" for 0 <= seconds: rounded to the millisecond (a half
\* rounds up), three decimals, zero-padded to six characters.
FormatSeconds(seconds) ==
  LET ms == (seconds + 5) \div 10
  IN  ZeroPad(Digits(ms \div 1000), 2) \o "." \o ZeroPad(Digits(ms % 1000), 3)

\* The M:SS.mmm string of a total time.
FormatLapTime(total_time) ==
  LET minutes == total_time \div 600000
      seconds == total_time % 600000
  IN  IntStr(minutes) \o ":" \o FormatSeconds(seconds)

\* The race adjustment with the fuel factor left out.
RaceAdjustTireOnly(total_time) == (total_time * 1007) \div 1000

\* The race-mode adjustment of a total time: tire degradation, then fuel.
RaceAdjust(total_time) == (((total_time * 1007) \div 1000) * 1003) \div 1000

\* A velocity in cm/s is kept as an integer while it is above
\* -FIXED_POINT_LIMIT; the loop caps it at 100 m/s from above.  Below that
\* the float's magnitude is kept as velocity_log10, the decimal logarithm
\* of |velocity| in m/s in 1/1000 (0 while the integer is in use), and the
\* velocity is negative.
FIXED_POINT_LIMIT == 20000

\* Where a diverged velocity and position are parked once velocity_log10
\* carries the magnitude.
FIXED_POINT_FLOOR == 1000000000

\* The largest finite float is about 10^308.254: a power beyond it raises
\* OverflowError, a product beyond it is inf.
FLOAT_MAX_LOG10 == 308254

\* velocity_log10 of -inf.
INF_LOG10 == FLOAT_MAX_LOG10 + 1

\* 10^(a/10), 10^(b/100) and 10^(c/1000) for a, b, c in 0..9, in 1/10000.
Pow10Tenths ==
  << 10000, 12589, 15849, 19953, 25119, 31623, 39811, 50119, 63096, 79433 >>

Pow10Hundredths ==
  << 10000, 10233, 10471, 10715, 10965, 11220, 11482, 11749, 12023, 12303 >>

Pow10Thousandths ==
  << 10000, 10023, 10046, 10069, 10093, 10116, 10139, 10162, 10186, 10209 >>

RECURSIVE Pow10(_)
Pow10(d) == IF d = 0 THEN 1 ELSE 10 * Pow10(d - 1)

RECURSIVE Decades(_)
Decades(n) == IF n < 10 THEN 0 ELSE 1 + Decades(n \div 10)

\* The last entry of table that is at most x, counted from 0.
LogDigit(table, x) ==
  (CHOOSE a \in 1..10 : table[a] <= x /\ (a = 10 \/ table[a + 1] > x)) - 1

\* log10(n) in 1/1000 for an integer n >= 1.
Log10Milli(n) ==
  LET d == Decades(n)
      m == IF d <= 4 THEN n * Pow10(4 - d) ELSE n \div Pow10(d - 4)
      a == LogDigit(Pow10Tenths, m)
      r1 == (m * 10000) \div Pow10Tenths[a + 1]
      b == LogDigit(Pow10Hundredths, r1)
      r2 == (r1 * 10000) \div Pow10Hundredths[b + 1]
      c == LogDigit(Pow10Thousandths, r2)
  IN  d * 1000 + a * 100 + b * 10 + c

\* 10^(l/1000) as an integer, for 0 <= l < 9000.
Pow10Milli(l) ==
  LET d == l \div 1000
      a == (l % 1000) \div 100
      b == (l % 100) \div 10
      c == l % 10
      m == (((Pow10Tenths[a + 1] * Pow10Hundredths[b + 1]) \div 10000)
              * Pow10Thousandths[c + 1]) \div 10000
  IN  IF d >= 4 THEN m * Pow10(d - 4) ELSE m \div Pow10(4 - d)

\* The pass in the fixed-point range without the ceiling of line 115.
StraightIterationUncapped(car_params, velocity, position, time) ==
  LET state == CarState(car_params, velocity)
      drag == calculate_drag_force(state)
      engine_force == (car_params.power * 100) \div Max(velocity, 10)
      net_force == engine_force - drag
      dv == (net_force * 10) \div car_params.mass
      v1 == velocity + dv
  IN  Return(<<v1, 0, Max(position + v1, -FIXED_POINT_FLOOR), time + 1>>)

\* One pass through the body of the straight-phase loop with the velocity
\* in the fixed-point range: velocity, velocity_log10, position and time
\* after it.
StraightIterationFixed(car_params, velocity, position, time) ==
  LET state == CarState(car_params, velocity)
      drag == calculate_drag_force(state)
      engine_force == (car_params.power * 100) \div Max(velocity, 10)
      net_force == engine_force - drag
      dv == (net_force * 10) \div car_params.mass
      v1 == Min(velocity + dv, 10000)
  IN  Return(<<v1, 0, Max(position + v1, -FIXED_POINT_FLOOR), time + 1>>)

\* The same pass with the velocity below the fixed-point range (drag
\* coefficient positive): state.velocity ** 2 raises OverflowError beyond
\* the float range, the drag product becomes inf beyond it, and the
\* engine force is power / 0.1.
StraightIterationDiverged(car_params, velocity, velocity_log10, position, time) ==
  LET log_v == IF velocity_log10 = 0 THEN Log10Milli(-velocity) - 2000
                                     ELSE velocity_log10
      log_half_rho_cd_area ==
        Log10Milli(AIR_DENSITY_NUM * car_params.drag_coefficient
                     * car_params.frontal_area)
          - Log10Milli(2 * AIR_DENSITY_DEN) - 4000
      log_drag == 2 * log_v + log_half_rho_cd_area
      log_dv == log_drag - Log10Milli(car_params.mass) - 1000
      engine_force == (car_params.power * 100) \div 10
      engine_dv == (engine_force * 10) \div car_params.mass
  IN  IF velocity_log10 = INF_LOG10
        THEN Return(<<-FIXED_POINT_FLOOR, INF_LOG10, -FIXED_POINT_FLOOR,
                      time + 1>>)
      ELSE IF 2 * log_v > FLOAT_MAX_LOG10
        THEN Raise("OverflowError")
      ELSE IF log_drag > FLOAT_MAX_LOG10
        THEN Return(<<-FIXED_POINT_FLOOR, INF_LOG10, -FIXED_POINT_FLOOR,
                      time + 1>>)
      ELSE IF velocity_log10 = 0 /\ log_dv < 7000
        THEN LET v1 == Min(velocity + engine_dv - Pow10Milli(log_dv + 2000),
                           10000)
             IN  Return(<<v1, 0, Max(position + v1, -FIXED_POINT_FLOOR),
                          time + 1>>)
      ELSE Return(<<-FIXED_POINT_FLOOR, log_dv, -FIXED_POINT_FLOOR,
                    time + 1>>)

\* One pass through the body of the straight-phase loop, or the exception
\* it raises.
StraightIteration(car_params, velocity, velocity_log10, position, time) ==
  IF velocity_log10 = 0 /\ velocity >= -FIXED_POINT_LIMIT
    THEN StraightIterationFixed(car_params, velocity, position, time)
    ELSE StraightIterationDiverged(car_params, velocity, velocity_log10,
                                   position, time)

\* A radius factor that cycles over four corners instead of three.
RadiusFactorOfFour(i) == 7 + (6 * (i % 4)) \div 2

\* radius_factor of corner i, in 1/10.
RadiusFactor(i) == 7 + (6 * (i % 3)) \div 2

\* The time one iteration of the corner loop adds to total_time, or the
\* exception it raises.
CornerIteration(car_params, i, avg_radius) ==
  LET corner_radius == (avg_radius * RadiusFactor(i)) \div 10
      v_estimate == Sqrt(((car_params.tire_friction * GRAVITY) \div 10)
                            * (corner_radius \div 10))
  IN  IF v_estimate.raised THEN v_estimate
      ELSE
      LET state == CarState(car_params, v_estimate.value)
          downforce == calculate_downforce(state)[3]
          normal_force == (car_params.mass * GRAVITY) \div 100 + downforce
          max_lat_accel ==
            (car_params.tire_friction * normal_force * 10) \div car_params.mass
          v_max == Sqrt(max_lat_accel * (corner_radius \div 10))
      IN  IF v_max.raised THEN v_max
          ELSE
          LET arc_length == (corner_radius * PI_NUM) \div (2 * PI_DEN)
              corner_time == Div(arc_length * 1000, v_max.value)
              v_entry == Min(7000, (v_estimate.value * 13) \div 10)
              brake_time ==
                IF v_entry > v_max.value
                  THEN ((v_entry - v_max.value) * 100 * car_params.mass)
                          \div car_params.brake_force
                  ELSE 0
              accel_time == Abs(v_estimate.value * 3)
          IN  IF corner_time.raised THEN corner_time
              ELSE Return(corner_time.value + Abs(brake_time) + accel_time)

\* The terms of one iteration of the corner loop, for an iteration that
\* does not raise: corner_time, brake_time and accel_time in 1/10000 s,
\* v_estimate, v_entry and v_max in cm/s.
CornerTerms(car_params, i, avg_radius) ==
  LET corner_radius == (avg_radius * RadiusFactor(i)) \div 10
      v_estimate == Sqrt(((car_params.tire_friction * GRAVITY) \div 10)
                            * (corner_radius \div 10)).value
      state == CarState(car_params, v_estimate)
      downforce == calculate_downforce(state)[3]
      normal_force == (car_params.mass * GRAVITY) \div 100 + downforce
      max_lat_accel ==
        (car_params.tire_friction * normal_force * 10) \div car_params.mass
      v_max == Sqrt(max_lat_accel * (corner_radius \div 10)).value
      arc_length == (corner_radius * PI_NUM) \div (2 * PI_DEN)
      v_entry == Min(7000, (v_estimate * 13) \div 10)
  IN  [ corner_radius |-> corner_radius,
        v_estimate |-> v_estimate,
        v_max |-> v_max,
        v_entry |-> v_entry,
        corner_time |-> Div(arc_length * 1000, v_max).value,
        brake_time |-> IF v_entry > v_max
                         THEN ((v_entry - v_max) * 100 * car_params.mass)
                                 \div car_params.brake_force
                         ELSE 0,
        accel_time |-> Abs(v_estimate * 3) ]

\* One activation of simulate_lap: its arguments, where it stands (pc) and
\* its locals.  pc is IDLE (no call), INIT, STRAIGHT_PHASE, CORNER_PHASE,
\* DONE (result holds the returned dict) or RAISED (result holds the
\* exception).
SimIdle ==
  [ pc |-> "IDLE", car_params |-> None, track_config |-> None,
    race_mode |-> FALSE, corner_count |-> 0, total_straight_distance |-> 0,
    avg_corner_radius |-> 0, velocity |-> 0, velocity_log10 |-> 0,
    position |-> 0, time |-> 0,
    straight_time |-> 0, i |-> 0, total_time |-> 0, result |-> None ]

\* simulate_lap is entered.
SimCall(car_params, track_config, race_mode) ==
  [ SimIdle EXCEPT !.pc = "INIT", !.car_params = car_params,
                   !.track_config = track_config, !.race_mode = race_mode ]

\* The setup with six times the longest straight taken as the straight
\* distance instead of 1.5 times.
SimSetupSixStraights(a) ==
  LET circuit_length == Get(a.track_config, "circuit_length", 5000) * 1000
      corner_count == Get(a.track_config, "corner_count", 15)
      longest_straight == Get(a.track_config, "longest_straight", 800)
      total_straight_distance == longest_straight * 6000
      corner_distance == circuit_length - total_straight_distance
      avg_corner_radius ==
        Div(corner_distance * 2 * PI_DEN, corner_count * PI_NUM)
  IN  IF avg_corner_radius.raised
        THEN [ a EXCEPT !.pc = "RAISED", !.result = avg_corner_radius ]
        ELSE [ a EXCEPT !.pc = "STRAIGHT_PHASE",
                        !.corner_count = corner_count,
                        !.total_straight_distance = total_straight_distance,
                        !.avg_corner_radius = avg_corner_radius.value,
                        !.velocity = 5000, !.velocity_log10 = 0,
                        !.position = 0, !.time = 0 ]

\* The track figures and the segment estimate, then the integrator's
\* initial locals.
SimSetup(a) ==
  LET circuit_length == Get(a.track_config, "circuit_length", 5000) * 1000
      corner_count == Get(a.track_config, "corner_count", 15)
      longest_straight == Get(a.track_config, "longest_straight", 800)
      total_straight_distance == longest_straight * 1500
      corner_distance == circuit_length - total_straight_distance
      avg_corner_radius ==
        Div(corner_distance * 2 * PI_DEN, corner_count * PI_NUM)
  IN  IF avg_corner_radius.raised
        THEN [ a EXCEPT !.pc = "RAISED", !.result = avg_corner_radius ]
        ELSE [ a EXCEPT !.pc = "STRAIGHT_PHASE",
                        !.corner_count = corner_count,
                        !.total_straight_distance = total_straight_distance,
                        !.avg_corner_radius = avg_corner_radius.value,
                        !.velocity = 5000, !.velocity_log10 = 0,
                        !.position = 0, !.time = 0 ]

\* while position < distance and time < 60
StraightContinues(a) ==
  a.position < a.total_straight_distance /\ a.time < 600

\* One pass through the body of the straight-phase loop.
SimStraightStep(a) ==
  LET n == StraightIteration(a.car_params, a.velocity, a.velocity_log10,
                             a.position, a.time)
  IN  IF n.raised
        THEN [ a EXCEPT !.pc = "RAISED", !.result = n ]
        ELSE [ a EXCEPT !.velocity = n.value[1],
                        !.velocity_log10 = n.value[2],
                        !.position = n.value[3], !.time = n.value[4] ]

\* The loop ends: _simulate_straight returns time, _simulate_corners starts.
SimStraightExit(a) ==
  [ a EXCEPT !.pc = "CORNER_PHASE", !.straight_time = a.time * 1000,
             !.i = 0, !.total_time = 0 ]

\* The corner loop with the corner's time assigned to the total instead
\* of added to it.
SimCornerStepAssigning(a) ==
  LET t == CornerIteration(a.car_params, a.i, a.avg_corner_radius)
  IN  IF t.raised
        THEN [ a EXCEPT !.pc = "RAISED", !.result = t ]
        ELSE [ a EXCEPT !.i = a.i + 1, !.total_time = t.value ]

\* One pass through the body of the corner loop.
SimCornerStep(a) ==
  LET t == CornerIteration(a.car_params, a.i, a.avg_corner_radius)
  IN  IF t.raised
        THEN [ a EXCEPT !.pc = "RAISED", !.result = t ]
        ELSE [ a EXCEPT !.i = a.i + 1, !.total_time = a.total_time + t.value ]

\* The result dict with the race adjustment applied to the two parts as
\* well as to the total.
LapResultAdjustingParts(straight_time, corner_time, race_mode) ==
  LET total_time == IF race_mode THEN RaceAdjust(straight_time + corner_time)
                                 ELSE straight_time + corner_time
  IN  [ lap_time |-> FormatLapTime(total_time),
        lap_time_seconds |-> total_time,
        straight_time |-> IF race_mode THEN RaceAdjust(straight_time)
                                       ELSE straight_time,
        corner_time |-> IF race_mode THEN RaceAdjust(corner_time)
                                     ELSE corner_time ]

\* The dict simulate_lap returns for a straight time and a corner time.
LapResult(straight_time, corner_time, race_mode) ==
  LET total_time == IF race_mode THEN RaceAdjust(straight_time + corner_time)
                                 ELSE straight_time + corner_time
  IN  [ lap_time |-> FormatLapTime(total_time),
        lap_time_seconds |-> total_time,
        straight_time |-> straight_time,
        corner_time |-> corner_time ]

\* The end of the call with a corner time that is a second longer on an
\* instance that has been used before.
SimFinishOnUsedInstance(a) ==
  [ a EXCEPT !.pc = "DONE",
             !.result =
               LapResult(a.straight_time,
                         IF DOMAIN last.laps = {} THEN a.total_time
                                                  ELSE a.total_time + 10000,
                         a.race_mode) ]

\* The corner loop ends: total, race adjustment, formatting, return.
SimFinish(a) ==
  [ a EXCEPT !.pc = "DONE",
             !.result = LapResult(a.straight_time, a.total_time, a.race_mode) ]

---------------------------------------------------------------------------
(* physics/circuit_analyzer.py *)

IsDigit(c) == \E k \in 1..10 : SubSeq("0123456789", k, k) = c

DigitValue(c) == (CHOOSE k \in 1..10 : SubSeq("0123456789", k, k) = c) - 1

IsDigits(str) ==
  Len(str) > 0 /\ \A k \in 1..Len(str) : IsDigit(SubSeq(str, k, k))

RECURSIVE Natural(_)
Natural(str) ==
  IF Len(str) = 0 THEN 0
  ELSE Natural(SubSeq(str, 1, Len(str) - 1)) * 10
         + DigitValue(SubSeq(str, Len(str), Len(str)))

\* str.split(':')
RECURSIVE SplitColon(_)
SplitColon(str) ==
  IF \E k \in 1..Len(str) : SubSeq(str, k, k) = ":"
    THEN LET k == CHOOSE k \in 1..Len(str) :
                    /\ SubSeq(str, k, k) = ":"
                    /\ \A j \in 1..(k - 1) : SubSeq(str, j, j) # ":"
         IN  <<SubSeq(str, 1, k - 1)>> \o SplitColon(SubSeq(str, k + 1, Len(str)))
    ELSE <<str>>

\* int(str) for an unsigned or negative decimal numeral; ValueError for
\* anything else.
ParseInt(str) ==
  IF IsDigits(str) THEN Return(Natural(str))
  ELSE IF Len(str) > 1 /\ SubSeq(str, 1, 1) = "-" /\ IsDigits(SubSeq(str, 2, Len(str)))
    THEN Return(-Natural(SubSeq(str, 2, Len(str))))
  ELSE Raise("ValueError")

\* float(str) for a numeral <digits>.<digits>, in 1/10000 (digits past the
\* fourth decimal dropped); ValueError for anything else.
ParseFloat(str) ==
  IF \E k \in 1..Len(str) :
        /\ SubSeq(str, k, k) = "."
        /\ IsDigits(SubSeq(str, 1, k - 1))
        /\ IsDigits(SubSeq(str, k + 1, Len(str)))
    THEN LET k == CHOOSE k \in 1..Len(str) : SubSeq(str, k, k) = "."
             frac == SubSeq(SubSeq(str, k + 1, Len(str)) \o "0000", 1, 4)
         IN  Return(Natural(SubSeq(str, 1, k - 1)) * 10000 + Natural(frac))
    ELSE Raise("ValueError")

\* The conversion with the fraction of the seconds dropped.
_parse_laptime_whole_seconds(laptime_str) ==
  LET parts == SplitColon(laptime_str)
  IN  IF Len(parts) < 2 THEN 900000
      ELSE LET minutes == ParseInt(parts[1])
               seconds == ParseFloat(parts[2])
           IN  IF minutes.raised \/ seconds.raised THEN 900000
               ELSE minutes.value * 600000
                      + (seconds.value \div 10000) * 10000

\* Lap time string M:SS.mmm to seconds; 90.0 on any exception.
_parse_laptime(laptime_str) ==
  LET parts == SplitColon(laptime_str)
  IN  IF Len(parts) < 2 THEN 900000
      ELSE LET minutes == ParseInt(parts[1])
               seconds == ParseFloat(parts[2])
           IN  IF minutes.raised \/ seconds.raised THEN 900000
               ELSE minutes.value * 600000 + seconds.value

\* The dict compare_with_baseline builds once both lap times are parsed;
\* percentage_diff in 1/100 percent, ZeroDivisionError for a baseline of 0.
Comparison(baseline_str, predicted_time, baseline_2024, predicted) ==
  LET delta == predicted - baseline_2024
      percentage_diff == Div(delta * 100, baseline_2024 \div 100)
  IN  IF percentage_diff.raised THEN percentage_diff
      ELSE Return([ comparison_available |-> TRUE,
                    baseline_2024 |-> baseline_str,
                    predicted_2025 |-> predicted_time,
                    delta_seconds |-> delta,
                    percentage_diff |-> percentage_diff.value ])

\* The comparison with the baseline subtracted the wrong way round.
compare_with_baseline_reversed(track_name, predicted_time) ==
  LET track_config == get_track_by_name(track_name)
  IN  IF track_config = None
           \/ track_config.fastest_quali_2024 \in {None, Str("")}
        THEN Return([ comparison_available |-> FALSE ])
        ELSE Comparison(track_config.fastest_quali_2024.v, predicted_time,
                        _parse_laptime(predicted_time),
                        _parse_laptime(track_config.fastest_quali_2024.v))

\* Comparison of a predicted lap time string with the 2024 qualifying
\* reference of the track.
compare_with_baseline(track_name, predicted_time) ==
  LET track_config == get_track_by_name(track_name)
  IN  IF track_config = None
           \/ track_config.fastest_quali_2024 \in {None, Str("")}
        THEN Return([ comparison_available |-> FALSE ])
        ELSE Comparison(track_config.fastest_quali_2024.v, predicted_time,
                        _parse_laptime(track_config.fastest_quali_2024.v),
                        _parse_laptime(predicted_time))

\* The top-speed iteration from velocity v, n passes left.
RECURSIVE TopSpeedIteration(_, _, _)
TopSpeedIteration(car_params, v, n) ==
  IF n = 0 THEN Return(v)
  ELSE LET drag == (((HalfRhoVSquared(v) * car_params.drag_coefficient) \div 100)
                      * car_params.frontal_area) \div 100
           v_new == Div(car_params.power * 100, drag)
       IN  IF v_new.raised THEN v_new
           ELSE TopSpeedIteration(car_params, (v + v_new.value) \div 2, n - 1)

\* Top speed in 1/100 km/h, or the exception.
_estimate_top_speed(car_params, track_config) ==
  LET v == TopSpeedIteration(car_params, 9000, 10)
  IN  IF v.raised THEN v ELSE Return((v.value * 36) \div 10)

\* Average corner speed in 1/100 km/h, or the exception.
_estimate_corner_speed(car_params, track_config) ==
  LET typical_radius == 5000
      v_estimate == 4000
      downforce_at_v ==
        (((HalfRhoVSquared(v_estimate) * (car_params.cl_front + car_params.cl_rear))
             \div 100) * car_params.frontal_area) \div 100
      normal_force == (car_params.mass * GRAVITY) \div 100 + downforce_at_v
      max_lat_accel ==
        (car_params.tire_friction * normal_force * 10) \div car_params.mass
      v_corner == Sqrt(max_lat_accel * typical_radius)
  IN  IF v_corner.raised THEN v_corner ELSE Return((v_corner.value * 36) \div 10)

\* CarParameters from the mapping with 0 for an absent wing angle.
CurrentParamsWithoutWingDefaults(current_config) ==
  CarParameters(Get(current_config, "drag_coefficient", 70),
                Get(current_config, "cl_front", 150),
                Get(current_config, "cl_rear", 200),
                Get(current_config, "front_wing_angle", 0),
                Get(current_config, "rear_wing_angle", 0),
                Get(current_config, "ride_height_front", 1200),
                Get(current_config, "ride_height_rear", 1400))

\* The current CarParameters of a configuration mapping, absent keys at
\* their defaults.
CurrentParams(current_config) ==
  CarParameters(Get(current_config, "drag_coefficient", 70),
                Get(current_config, "cl_front", 150),
                Get(current_config, "cl_rear", 200),
                Get(current_config, "front_wing_angle", 220),
                Get(current_config, "rear_wing_angle", 260),
                Get(current_config, "ride_height_front", 1200),
                Get(current_config, "ride_height_rear", 1400))

\* The optimal parameters with the ride heights taken over from the
\* current parameters.
OptimalParamsKeepingRideHeights(current_params, track_config) ==
  LET optimal_aero == optimize_for_track(track_config)
  IN  [ CarParameters(optimal_aero.drag_coefficient,
                      optimal_aero.cl_front,
                      optimal_aero.cl_rear,
                      optimal_aero.front_wing_angle,
                      optimal_aero.rear_wing_angle,
                      current_params.ride_height_front,
                      current_params.ride_height_rear)
        EXCEPT !.mass = current_params.mass, !.power = current_params.power ]

\* The optimal CarParameters for a track: optimize_for_track on the
\* TrackConfig's __dict__, mass and power from the current parameters.
OptimalParams(current_params, track_config) ==
  LET optimal_aero == optimize_for_track(track_config)
  IN  [ CarParameters(optimal_aero.drag_coefficient,
                      optimal_aero.cl_front,
                      optimal_aero.cl_rear,
                      optimal_aero.front_wing_angle,
                      optimal_aero.rear_wing_angle,
                      optimal_aero.ride_height_front,
                      optimal_aero.ride_height_rear)
        EXCEPT !.mass = current_params.mass, !.power = current_params.power ]

\* The CircuitAnalysis built from the four lap time strings, or the
\* exception of a speed estimate.
BuildAnalysis(track_config, optimal_params, current_quali, current_race, optimal_quali, optimal_race) ==
  LET time_gain_quali == _parse_laptime(current_quali) - _parse_laptime(optimal_quali)
      time_gain_race == _parse_laptime(current_race) - _parse_laptime(optimal_race)
      top_speed == _estimate_top_speed(optimal_params, track_config)
      avg_corner_speed == _estimate_corner_speed(optimal_params, track_config)
  IN  IF top_speed.raised THEN top_speed
      ELSE IF avg_corner_speed.raised THEN avg_corner_speed
      ELSE Return(
        [ track_name |-> track_config.name,
          qualifying_lap_time |-> optimal_quali,
          race_lap_time |-> optimal_race,
          optimal_config |->
            [ drag_coefficient |-> optimal_params.drag_coefficient,
              cl_front |-> optimal_params.cl_front,
              cl_rear |-> optimal_params.cl_rear,
              front_wing_angle |-> optimal_params.front_wing_angle,
              rear_wing_angle |-> optimal_params.rear_wing_angle ],
          time_gain_quali |-> time_gain_quali,
          time_gain_race |-> time_gain_race,
          downforce_requirement |-> EnumValue(track_config.downforce_level),
          top_speed_estimate |-> top_speed.value,
          avg_corner_speed |-> avg_corner_speed.value,
          top_speed |-> top_speed.value,
          setup_recommendations |->
            [ wing_angles |->
                [ front |-> optimal_params.front_wing_angle,
                  rear |-> optimal_params.rear_wing_angle ],
              ride_heights |->
                [ front |-> optimal_params.ride_height_front,
                  rear |-> optimal_params.ride_height_rear ],
              downforce_level |-> EnumValue(track_config.downforce_level) ],
          critical_corners |-> <<"Medium-speed corners - balanced setup">> ])

---------------------------------------------------------------------------
(* State.                                                                  *)
(*   an    the activation of analyze_circuit (pc IDLE when there is none)  *)
(*   sim   the activation of simulate_lap                                  *)
(*   last  what a caller keeps of its previous call: the arguments and    *)
(*         outcome of a direct simulate_lap call, of an analyze_circuit    *)
(*         call, or of a helper-function call                              *)
(*   arg, out  the argument and the outcome of a pure-function call        *)

\* One activation of analyze_circuit.  pc is IDLE, CALLED, SIMULATING (k is
\* the lap being simulated: 1 current qualifying, 2 current race, 3 optimal
\* qualifying, 4 optimal race; laps holds the strings so far), DONE or
\* RAISED.
AnIdle ==
  [ pc |-> "IDLE", track_name |-> "", current_config |-> <<>>,
    track_config |-> None, current_params |-> None,
    optimal_params |-> None, k |-> 0, laps |-> <<>>, result |-> None ]

NoLast ==
  [ car_params |-> None, track_config |-> None, race_mode |-> FALSE,
    outcome |-> None ]

---------------------------------------------------------------------------
(* Inputs *)

RegistryKeys == { TRACK_CONFIGS[k][1] : k \in 1..Len(TRACK_CONFIGS) }

\* Track names given to analyze_circuit: every registry key, and names
\* that are no key.
TrackNameInputs ==
  RegistryKeys \cup
    { "Monza", "MONZA", "monaco", "italy", "Nonexistent Track", "",
      "a", "circuit", "autodromo", "Spa", "Silverstone", "Imola)", "xyz" }

\* Configuration mappings given to analyze_circuit: the empty mapping, a
\* full mapping, and a partial mapping of lift coefficients -3.0 and -4.0
\* (a car that generates lift).
ConfigInputs ==
  { <<>>,
    [ drag_coefficient |-> 68, cl_front |-> 120, cl_rear |-> 160,
      front_wing_angle |-> 150, rear_wing_angle |-> 180,
      ride_height_front |-> 1500, ride_height_rear |-> 1800 ],
    [ cl_front |-> -300, cl_rear |-> -400 ] }

\* Drag coefficients of the cars given to simulate_lap directly: the three
\* preset values, zero, a negative one (-1.0) and four far above the
\* typical range (200.0, 249.0, 300.0 and 425.0).
LapDragInputs == { 68, 70, 75, 0, -100, 20000, 24900, 30000, 42500 }

\* Their front and rear lift coefficients: the defaults, none, and a car
\* that generates lift (-3.0 and -4.0).
LapLiftInputs == { <<150, 200>>, <<0, 0>>, <<-300, -400>> }

LapCarInputs ==
  { CarParameters(cd, 150, 200, 220, 260, 1200, 1400) : cd \in LapDragInputs }
    \cup { CarParameters(70, cl[1], cl[2], 220, 260, 1200, 1400) :
              cl \in LapLiftInputs }

\* Tracks given to simulate_lap directly: TrackConfig.__dict__ of Monza
\* and of Monaco.
LapTrackInputs == { get_track_by_name("Italy"), get_track_by_name("Monaco") }

---------------------------------------------------------------------------
(* simulate_lap, step by step *)

Setup ==
  /\ sim.pc = "INIT"
  /\ sim' = SimSetup(sim)
  /\ UNCHANGED <<an, last, arg, out>>

StraightStep ==
  /\ sim.pc = "STRAIGHT_PHASE"
  /\ StraightContinues(sim)
  /\ sim' = SimStraightStep(sim)
  /\ UNCHANGED <<an, last, arg, out>>

StraightExit ==
  /\ sim.pc = "STRAIGHT_PHASE"
  /\ ~StraightContinues(sim)
  /\ sim' = SimStraightExit(sim)
  /\ UNCHANGED <<an, last, arg, out>>

CornerStep ==
  /\ sim.pc = "CORNER_PHASE"
  /\ sim.i < sim.corner_count
  /\ sim' = SimCornerStep(sim)
  /\ UNCHANGED <<an, last, arg, out>>

Finish ==
  /\ sim.pc = "CORNER_PHASE"
  /\ ~(sim.i < sim.corner_count)
  /\ sim' = SimFinish(sim)
  /\ UNCHANGED <<an, last, arg, out>>

\* A caller calls simulate_lap directly.
LapCall ==
  /\ an.pc = "IDLE"
  /\ sim.pc = "IDLE"
  /\ \E car_params \in LapCarInputs, track_config \in LapTrackInputs,
        race_mode \in BOOLEAN :
        sim' = SimCall(car_params, track_config, race_mode)
  /\ UNCHANGED <<an, last, arg, out>>

\* The call returns or raises to that caller.
LapReturn ==
  /\ an.pc = "IDLE"
  /\ sim.pc \in {"DONE", "RAISED"}
  /\ last' = [ car_params |-> sim.car_params,
               track_config |-> sim.track_config,
               race_mode |-> sim.race_mode,
               outcome |-> IF sim.pc = "DONE" THEN Return(sim.result)
                                              ELSE sim.result ]
  /\ sim' = SimIdle
  /\ UNCHANGED <<an, arg, out>>

---------------------------------------------------------------------------
(* analyze_circuit, step by step *)

AnalyzeCall ==
  /\ an.pc \in {"IDLE", "DONE", "RAISED"}
  /\ sim.pc = "IDLE"
  /\ \E track_name \in TrackNameInputs, current_config \in ConfigInputs :
        an' = [ AnIdle EXCEPT !.pc = "CALLED", !.track_name = track_name,
                              !.current_config = current_config ]
  /\ UNCHANGED <<sim, last, arg, out>>

\* The lookup with the first registry entry substituted for a name that
\* resolves to nothing.
AnalyzeLookupDefaulting ==
  /\ an.pc = "CALLED"
  /\ LET found == get_track_by_name(an.track_name)
         track_config == IF found = None THEN TRACK_CONFIGS[1][2] ELSE found
         current_params == CurrentParams(an.current_config)
     IN  /\ an' = [ an EXCEPT !.pc = "SIMULATING",
                              !.track_config = track_config,
                              !.current_params = current_params,
                              !.k = 1 ]
         /\ sim' = SimCall(current_params, track_config, FALSE)
  /\ UNCHANGED <<last, arg, out>>

\* The lookup; NotFound, or the current parameters and the first
\* simulate_lap call of predict_optimal_laptime.
AnalyzeLookup ==
  /\ an.pc = "CALLED"
  /\ LET track_config == get_track_by_name(an.track_name)
     IN  IF track_config = None
           THEN /\ an' = [ an EXCEPT !.pc = "RAISED",
                                     !.result = [ raised |-> TRUE,
                                                  exc |-> "ValueError",
                                                  track |-> an.track_name ] ]
                /\ sim' = sim
           ELSE LET current_params == CurrentParams(an.current_config)
                IN  /\ an' = [ an EXCEPT !.pc = "SIMULATING",
                                         !.track_config = track_config,
                                         !.current_params = current_params,
                                         !.k = 1 ]
                    /\ sim' = SimCall(current_params, track_config, FALSE)
  /\ UNCHANGED <<last, arg, out>>

\* A simulate_lap call returns and the next one is made: the race lap of
\* the same parameters, or the qualifying lap of the optimal parameters.
AnalyzeCollect ==
  /\ an.pc = "SIMULATING"
  /\ an.k < 4
  /\ sim.pc = "DONE"
  /\ LET laps == Append(an.laps, sim.result.lap_time)
         optimal_params ==
           IF an.k = 2 THEN OptimalParams(an.current_params, an.track_config)
                       ELSE an.optimal_params
         params == IF an.k = 1 THEN an.current_params ELSE optimal_params
     IN  /\ an' = [ an EXCEPT !.laps = laps, !.k = an.k + 1,
                              !.optimal_params = optimal_params ]
         /\ sim' = SimCall(params, an.track_config, an.k \in {1, 3})
  /\ UNCHANGED <<last, arg, out>>

\* The last simulate_lap call returns: gains, speed estimates, result.
AnalyzeFinish ==
  /\ an.pc = "SIMULATING"
  /\ an.k = 4
  /\ sim.pc = "DONE"
  /\ LET laps == Append(an.laps, sim.result.lap_time)
         r == BuildAnalysis(an.track_config, an.optimal_params,
                            laps[1], laps[2], laps[3], laps[4])
     IN  an' = [ an EXCEPT !.pc = IF r.raised THEN "RAISED" ELSE "DONE",
                           !.laps = laps,
                           !.result = IF r.raised THEN r ELSE r.value ]
  /\ sim' = SimIdle
  /\ UNCHANGED <<last, arg, out>>

\* An exception of simulate_lap leaves analyze_circuit.
AnalyzeRaise ==
  /\ an.pc = "SIMULATING"
  /\ sim.pc = "RAISED"
  /\ an' = [ an EXCEPT !.pc = "RAISED", !.result = sim.result ]
  /\ sim' = SimIdle
  /\ UNCHANGED <<last, arg, out>>

---------------------------------------------------------------------------
(* Specifications *)

Init ==
  /\ an = AnIdle
  /\ sim = SimIdle
  /\ last = NoLast
  /\ arg = None
  /\ out = None

\* Calls of analyze_circuit.
Next ==
  \/ AnalyzeCall
  \/ AnalyzeLookup
  \/ Setup
  \/ StraightStep
  \/ StraightExit
  \/ CornerStep
  \/ Finish
  \/ AnalyzeCollect
  \/ AnalyzeFinish
  \/ AnalyzeRaise

Spec == Init /\ [][Next]_vars

\* Direct calls of simulate_lap, one after the other.
NextLap ==
  \/ LapCall
  \/ Setup
  \/ StraightStep
  \/ StraightExit
  \/ CornerStep
  \/ Finish
  \/ LapReturn

SpecLap == Init /\ [][NextLap]_vars

---------------------------------------------------------------------------
(* The result dict of simulate_lap around a whole minute *)

MaxMinutes == 2
MaxOffset == 12

\* Straight times are whole steps of 0.1 s; 18.6 s is Monza's and 60 s the
\* limit of the loop.
FormatStraightInputs == { 0, 186000, 600000 }

\* Corner times that, added to a straight time of 18.6 s, give a total
\* within MaxOffset ten-thousandths of a second of a whole minute, and
\* the corner times of Monza and Monaco.
FormatCornerInputs ==
  { m * 600000 - 186000 + d : m \in 1..MaxMinutes, d \in (-MaxOffset)..MaxOffset }
    \cup { 0, 5, 559891, 693415 }

FormatInputs ==
  [ straight_time : FormatStraightInputs, corner_time : FormatCornerInputs,
    race_mode : BOOLEAN ]

InitFormat ==
  /\ an = AnIdle
  /\ sim = SimIdle
  /\ last = NoLast
  /\ arg \in FormatInputs
  /\ out = None

\* simulate_lap totals the two times and formats the result.
FormatResult ==
  /\ out = None
  /\ out' = LapResult(arg.straight_time, arg.corner_time, arg.race_mode)
  /\ UNCHANGED <<an, sim, last, arg>>

NextFormat == FormatResult

SpecFormat == InitFormat /\ [][NextFormat]_vars

---------------------------------------------------------------------------
(* The force model on a grid of states *)

MaxVelocitySteps == 2

\* Velocities 0, 25, 50, ... m/s.
VelocityInputs == { k * 2500 : k \in 0..MaxVelocitySteps }

\* Wing angles: the default pair, and a front wing at -30 degrees with a
\* rear wing at 45 degrees.
WingInputs == { <<220, 260>>, <<-300, 450>> }

\* Yaw angles 0 and 5 degrees.
YawInputs == { 0, 50 }

\* AeroStates with zero and typical coefficients and areas, at a typical
\* and at a low ride height, and the DRS flag.
AeroInputs ==
  [ state :
      { [ AeroState(v, cd, clf, clr, area, h[1], h[2], w[1], w[2])
            EXCEPT !.yaw_angle = yaw ] :
          v \in VelocityInputs, cd \in {0, 70}, clf \in {0, 150},
          clr \in {0, 200}, area \in {0, 140},
          h \in { <<1200, 1400>>, <<400, 600>> },
          w \in WingInputs, yaw \in YawInputs },
    drs_open : BOOLEAN ]

InitAero ==
  /\ an = AnIdle
  /\ sim = SimIdle
  /\ last = NoLast
  /\ arg \in AeroInputs
  /\ out = None

\* A call of one function of the force model: out holds its name and its
\* outcome.
Called(fn, outcome) ==
  /\ out = None
  /\ out' = [ fn |-> fn, outcome |-> outcome ]
  /\ UNCHANGED <<an, sim, last, arg>>

DragForce ==
  Called("calculate_drag_force", Return(calculate_drag_force(arg.state)))

Downforce ==
  Called("calculate_downforce", Return(calculate_downforce(arg.state)))

LiftToDragRatio ==
  Called("calculate_lift_to_drag_ratio", calculate_lift_to_drag_ratio(arg.state))

AerodynamicBalance ==
  Called("calculate_aerodynamic_balance", calculate_aerodynamic_balance(arg.state))

PressureDistribution ==
  Called("calculate_pressure_distribution",
         Return(calculate_pressure_distribution(arg.state, 50)))

VortexGeneration ==
  Called("calculate_vortex_generation",
         Return(calculate_vortex_generation(arg.state)))

DrsEffect ==
  Called("calculate_drs_effect", calculate_drs_effect(arg.state, arg.drs_open))

ReynoldsNumber ==
  Called("calculate_reynolds_number",
         Return(calculate_reynolds_number(arg.state, 50)))

PorpoisingRisk ==
  Called("calculate_porpoising_risk",
         Return(calculate_porpoising_risk(arg.state)))

NextAero ==
  \/ DragForce
  \/ Downforce
  \/ LiftToDragRatio
  \/ AerodynamicBalance
  \/ PressureDistribution
  \/ VortexGeneration
  \/ DrsEffect
  \/ ReynoldsNumber
  \/ PorpoisingRisk

SpecAero == InitAero /\ [][NextAero]_vars

---------------------------------------------------------------------------
(* The helper functions of the force model, call after call *)

MaxHeightSteps == 40
MaxAngleSteps == 45

\* Ride heights 0, 0.5, 1, ... mm, and the heights 0.01 mm either side of
\* 5 mm and of 12 mm.
HeightInputs ==
  { 50 * k : k \in 0..MaxHeightSteps } \cup { 499, 501, 1199, 1201 }

\* Wing angles 0, 2, 4, ... degrees either way, and the angles 0.1 degree
\* either side of 40 degrees.
AngleInputs ==
  { 20 * k : k \in (-MaxAngleSteps)..MaxAngleSteps } \cup { 399, 401 }

\* Mappings given to optimize_for_track: TrackConfig.__dict__ of a LOW, a
\* HIGH and a MEDIUM track (the level is the enum member), mappings with
\* the level as a str, alone and beside other fields, with a level that is
\* no preset's, with None as the level, and without a level.
TrackCharacteristicsInputs ==
  { get_track_by_name("Italy"), get_track_by_name("Monaco"),
    get_track_by_name("Bahrain"),
    [ downforce_level |-> Str("low") ],
    [ downforce_level |-> Str("low"), circuit_length |-> 3337,
      corner_count |-> 19, longest_straight |-> 580 ],
    [ downforce_level |-> Str("high") ],
    [ downforce_level |-> Str("high"), circuit_length |-> 5793,
      corner_count |-> 11, longest_straight |-> 1150 ],
    [ downforce_level |-> Str("medium") ],
    [ downforce_level |-> Str("LOW") ],
    [ downforce_level |-> Str("extreme") ],
    [ downforce_level |-> None ],
    [ circuit_length |-> 5793, corner_count |-> 11 ],
    <<>> }

\* A call of a helper: arg is the call (function and argument), out its
\* outcome, last the call before it.
GroundEffectFactor ==
  /\ \E ride_height_mm \in HeightInputs :
       /\ arg' = [ fn |-> "_ground_effect_factor", x |-> ride_height_mm ]
       /\ out' = Return(_ground_effect_factor(ride_height_mm))
  /\ last' = [ arg |-> arg, out |-> out ]
  /\ UNCHANGED <<an, sim>>

WingEfficiency ==
  /\ \E angle_degrees \in AngleInputs :
       /\ arg' = [ fn |-> "_wing_efficiency", x |-> angle_degrees ]
       /\ out' = Return(_wing_efficiency(angle_degrees))
  /\ last' = [ arg |-> arg, out |-> out ]
  /\ UNCHANGED <<an, sim>>

OptimizeForTrack ==
  /\ \E track_characteristics \in TrackCharacteristicsInputs :
       /\ arg' = [ fn |-> "optimize_for_track", x |-> track_characteristics ]
       /\ out' = Return(optimize_for_track(track_characteristics))
  /\ last' = [ arg |-> arg, out |-> out ]
  /\ UNCHANGED <<an, sim>>

NextPure ==
  \/ GroundEffectFactor
  \/ WingEfficiency
  \/ OptimizeForTrack

SpecPure == Init /\ [][NextPure]_vars

---------------------------------------------------------------------------
(* analyze_circuit on partial configuration mappings *)

\* The keys analyze_circuit reads from the configuration mapping.
ConfigKeys ==
  { "drag_coefficient", "cl_front", "cl_rear", "front_wing_angle",
    "rear_wing_angle", "ride_height_front", "ride_height_rear" }

\* A full mapping that differs from the defaults in every key.
FullConfig ==
  [ drag_coefficient |-> 68, cl_front |-> 120, cl_rear |-> 160,
    front_wing_angle |-> 150, rear_wing_angle |-> 180,
    ride_height_front |-> 1500, ride_height_rear |-> 1800 ]

\* The full mapping of the baseline values: drag coefficient 0.70, lift
\* coefficients 1.5 and 2.0, wing angles 22 and 26 degrees, ride heights
\* 12 and 14 mm.
BaselineConfig ==
  [ drag_coefficient |-> 70, cl_front |-> 150, cl_rear |-> 200,
    front_wing_angle |-> 220, rear_wing_angle |-> 260,
    ride_height_front |-> 1200, ride_height_rear |-> 1400 ]

\* The mappings with every subset of the keys absent, and a partial
\* mapping of a car that generates lift.
PartialConfigInputs ==
  { [ k \in present |-> FullConfig[k] ] : present \in SUBSET ConfigKeys }
    \cup { [ cl_front |-> -300, cl_rear |-> -400 ] }

PartialTrackInputs == { "Monza", "Monaco" }

\* A caller analyses a known track with a partial mapping.
PartialCall ==
  /\ an.pc = "IDLE"
  /\ sim.pc = "IDLE"
  /\ last = NoLast
  /\ \E track_name \in PartialTrackInputs,
        current_config \in PartialConfigInputs :
        an' = [ AnIdle EXCEPT !.pc = "CALLED", !.track_name = track_name,
                              !.current_config = current_config ]
  /\ UNCHANGED <<sim, last, arg, out>>

\* The caller keeps the outcome and analyses the same track again, with
\* the values analyze_circuit documents written out for the absent keys.
ExplicitCall ==
  /\ an.pc \in {"DONE", "RAISED"}
  /\ sim.pc = "IDLE"
  /\ last = NoLast
  /\ last' = [ track_name |-> an.track_name,
               current_config |-> an.current_config,
               pc |-> an.pc, result |-> an.result ]
  /\ an' = [ AnIdle EXCEPT
               !.pc = "CALLED", !.track_name = an.track_name,
               !.current_config =
                 [ k \in ConfigKeys |->
                     Get(an.current_config, k, BaselineConfig[k]) ] ]
  /\ UNCHANGED <<sim, arg, out>>

NextPartial ==
  \/ PartialCall
  \/ ExplicitCall
  \/ AnalyzeLookup
  \/ Setup
  \/ StraightStep
  \/ StraightExit
  \/ CornerStep
  \/ Finish
  \/ AnalyzeCollect
  \/ AnalyzeFinish
  \/ AnalyzeRaise

SpecPartial == Init /\ [][NextPartial]_vars

---------------------------------------------------------------------------
(* compare_with_baseline, call after call *)

\* Predicted lap times given to compare_with_baseline: lap time strings
\* of simulate_lap (Monza's and Monaco's baseline laps, a lap above two
\* minutes, a lap rounded up to a full sixty seconds, a lap of zero) and
\* strings that are no lap times.
PredictedTimeInputs ==
  { "1:14.589", "1:19.326", "2:07.442", "1:60.000", "0:00.000",
    "", "abc", "90", "1:xx", "x:10.000", "1:10.270" }

\* The outcome of compare_with_baseline for each pair of inputs.
CompareOutcomes ==
  [ track_name \in TrackNameInputs |->
      [ predicted_time \in PredictedTimeInputs |->
          compare_with_baseline(track_name, predicted_time) ] ]

CompareWithBaseline ==
  /\ \E track_name \in TrackNameInputs,
        predicted_time \in PredictedTimeInputs :
       /\ arg' = [ fn |-> "compare_with_baseline", track_name |-> track_name,
                   predicted_time |-> predicted_time ]
       /\ out' = CompareOutcomes[track_name][predicted_time]
  /\ UNCHANGED <<an, sim, last>>

NextCompare == CompareWithBaseline

SpecCompare == Init /\ [][NextCompare]_vars

---------------------------------------------------------------------------
(* Repeated calls on one LapTimeSimulator and one AerodynamicPhysics *)

\* Arguments of the repeated simulate_lap calls: the default car on Monza
\* in both modes and on Monaco, and a car that generates lift on Monza.
RepeatLapInputs ==
  { <<CarParameters(70, 150, 200, 220, 260, 1200, 1400),
      get_track_by_name("Italy"), FALSE>>,
    <<CarParameters(70, 150, 200, 220, 260, 1200, 1400),
      get_track_by_name("Italy"), TRUE>>,
    <<CarParameters(70, 150, 200, 220, 260, 1200, 1400),
      get_track_by_name("Monaco"), FALSE>>,
    <<CarParameters(70, -300, -400, 220, 260, 1200, 1400),
      get_track_by_name("Italy"), FALSE>> }

\* Arguments of the repeated force-model calls.
RepeatForceInputs ==
  { [ fn |-> fn,
      state |-> AeroState(5000, 70, 150, 200, 140, 1200, 1400, 220, 260) ] :
      fn \in {"calculate_drag_force", "calculate_downforce"} }

\* The outcome of a force-model function on a state.
ForceOutcome(fn, state) ==
  IF fn = "calculate_drag_force" THEN Return(calculate_drag_force(state))
                                 ELSE Return(calculate_downforce(state))

\* f with the outcome of the call key added, unless f holds one already.
Remembered(f, key, outcome) ==
  [ k \in DOMAIN f \cup {key} |-> IF k \in DOMAIN f THEN f[k] ELSE outcome ]

\* No call has been made; last holds, for every call made so far, the
\* outcome of the first call with those arguments.
InitRepeat ==
  /\ an = AnIdle
  /\ sim = SimIdle
  /\ last = [ laps |-> <<>>, forces |-> <<>> ]
  /\ arg = None
  /\ out = None

RepeatLapCall ==
  /\ sim.pc = "IDLE"
  /\ \E c \in RepeatLapInputs : sim' = SimCall(c[1], c[2], c[3])
  /\ UNCHANGED <<an, last, arg, out>>

\* simulate_lap returns or raises to its caller.
RepeatLapReturn ==
  /\ sim.pc \in {"DONE", "RAISED"}
  /\ last' = [ last EXCEPT !.laps =
                 Remembered(last.laps,
                            <<sim.car_params, sim.track_config, sim.race_mode>>,
                            IF sim.pc = "DONE" THEN Return(sim.result)
                                               ELSE sim.result) ]
  /\ sim' = SimIdle
  /\ UNCHANGED <<an, arg, out>>

\* A force-model function is called between two simulate_lap calls.
RepeatForceCall ==
  /\ sim.pc = "IDLE"
  /\ \E c \in RepeatForceInputs :
       /\ arg' = c
       /\ out' = ForceOutcome(c.fn, c.state)
       /\ last' = [ last EXCEPT !.forces =
                      Remembered(last.forces, c,
                                 ForceOutcome(c.fn, c.state)) ]
  /\ UNCHANGED <<an, sim>>

NextRepeat ==
  \/ RepeatLapCall
  \/ Setup
  \/ StraightStep
  \/ StraightExit
  \/ CornerStep
  \/ Finish
  \/ RepeatLapReturn
  \/ RepeatForceCall

SpecRepeat == InitRepeat /\ [][NextRepeat]_vars

---------------------------------------------------------------------------
(* Calls interleaved on one CircuitAnalyzer and its LapTimeSimulator.      *)
(* Here an and sim hold one activation per thread: an[t] is thread t's     *)
(* analyze_circuit activation (pc IDLE when the thread calls simulate_lap  *)
(* directly) and sim[t] its simulate_lap activation.  The instance fields  *)
(* and the registry are assigned before the first call only, so they are   *)
(* the definitions above; every other variable of the code is a local of   *)
(* an activation.                                                          *)

Threads == {"first", "second"}

\* The next step of a simulate_lap activation.
SimStep(a) ==
  CASE a.pc = "INIT" -> SimSetup(a)
    [] a.pc = "STRAIGHT_PHASE" ->
         IF StraightContinues(a) THEN SimStraightStep(a)
                                 ELSE SimStraightExit(a)
    [] a.pc = "CORNER_PHASE" ->
         IF a.i < a.corner_count THEN SimCornerStep(a) ELSE SimFinish(a)

\* The next step of an analyze_circuit activation a whose simulate_lap
\* activation is s: the lookup, a step of the simulate_lap call under
\* way, the next simulate_lap call, the result, or the exception.
AnalyzeStep(a, s) ==
  IF a.pc = "CALLED" THEN
    LET track_config == get_track_by_name(a.track_name)
    IN  IF track_config = None
          THEN [ an |-> [ a EXCEPT !.pc = "RAISED",
                                   !.result = [ raised |-> TRUE,
                                                exc |-> "ValueError",
                                                track |-> a.track_name ] ],
                 sim |-> s ]
          ELSE LET current_params == CurrentParams(a.current_config)
               IN  [ an |-> [ a EXCEPT !.pc = "SIMULATING",
                                       !.track_config = track_config,
                                       !.current_params = current_params,
                                       !.k = 1 ],
                     sim |-> SimCall(current_params, track_config, FALSE) ]
  ELSE IF s.pc = "RAISED" THEN
    [ an |-> [ a EXCEPT !.pc = "RAISED", !.result = s.result ],
      sim |-> SimIdle ]
  ELSE IF s.pc = "DONE" /\ a.k < 4 THEN
    LET laps == Append(a.laps, s.result.lap_time)
        optimal_params ==
          IF a.k = 2 THEN OptimalParams(a.current_params, a.track_config)
                     ELSE a.optimal_params
        params == IF a.k = 1 THEN a.current_params ELSE optimal_params
    IN  [ an |-> [ a EXCEPT !.laps = laps, !.k = a.k + 1,
                            !.optimal_params = optimal_params ],
          sim |-> SimCall(params, a.track_config, a.k \in {1, 3}) ]
  ELSE IF s.pc = "DONE" THEN
    LET laps == Append(a.laps, s.result.lap_time)
        r == BuildAnalysis(a.track_config, a.optimal_params,
                           laps[1], laps[2], laps[3], laps[4])
    IN  [ an |-> [ a EXCEPT !.pc = IF r.raised THEN "RAISED" ELSE "DONE",
                            !.laps = laps,
                            !.result = IF r.raised THEN r ELSE r.value ],
          sim |-> SimIdle ]
  ELSE [ an |-> a, sim |-> SimStep(s) ]

\* The call c (its two activations) has returned or raised.
Ended(c) ==
  IF c.an.pc = "IDLE" THEN c.sim.pc \in {"DONE", "RAISED"}
                      ELSE c.an.pc \in {"DONE", "RAISED"}

\* The next step of the call c.
CallStep(c) ==
  IF c.an.pc = "IDLE" THEN [ an |-> c.an, sim |-> SimStep(c.sim) ]
                      ELSE AnalyzeStep(c.an, c.sim)

\* The calls the threads make: simulate_lap on Monaco for the default car
\* in qualifying mode and for the low-downforce car in race mode, and
\* analyze_circuit of Monaco with the empty mapping and with a lift
\* coefficient that makes the lap raise.
ConcurrentCalls ==
  { [ an |-> AnIdle,
      sim |-> SimCall(CarParameters(70, 150, 200, 220, 260, 1200, 1400),
                      get_track_by_name("Monaco"), FALSE) ],
    [ an |-> AnIdle,
      sim |-> SimCall(CarParameters(68, 120, 160, 150, 180, 1500, 1800),
                      get_track_by_name("Monaco"), TRUE) ],
    [ an |-> [ AnIdle EXCEPT !.pc = "CALLED", !.track_name = "Monaco",
                             !.current_config = <<>> ],
      sim |-> SimIdle ],
    [ an |-> [ AnIdle EXCEPT !.pc = "CALLED", !.track_name = "Monaco",
                             !.current_config =
                               [ cl_front |-> -300, cl_rear |-> -400 ] ],
      sim |-> SimIdle ] }

InitConcurrent ==
  /\ an = [ t \in Threads |-> AnIdle ]
  /\ sim = [ t \in Threads |-> SimIdle ]
  /\ last = NoLast
  /\ arg = None
  /\ out = None

\* Thread t calls simulate_lap or analyze_circuit.
ThreadCall(t) ==
  /\ an[t].pc = "IDLE"
  /\ sim[t].pc = "IDLE"
  /\ \E c \in ConcurrentCalls :
       /\ an' = [ an EXCEPT ![t] = c.an ]
       /\ sim' = [ sim EXCEPT ![t] = c.sim ]
  /\ UNCHANGED <<last, arg, out>>

\* The step of thread t with the velocity of the straight-phase loop read
\* from where the other thread's loop last wrote it.
SteppedOnSharedVelocity(t) ==
  LET other == CHOOSE u \in Threads : u # t
      shared == IF sim[other].pc = "STRAIGHT_PHASE"
                  THEN [ sim[t] EXCEPT !.velocity = sim[other].velocity ]
                  ELSE sim[t]
  IN  CallStep([ an |-> an[t], sim |-> shared ])

\* The activations of thread t after its next step.
Stepped(t) == CallStep([ an |-> an[t], sim |-> sim[t] ])

\* Thread t runs one step of its call while the other thread is
\* suspended wherever it is.
ThreadStep(t) ==
  /\ ~(an[t].pc = "IDLE" /\ sim[t].pc = "IDLE")
  /\ ~Ended([ an |-> an[t], sim |-> sim[t] ])
  /\ an' = [ an EXCEPT ![t] = Stepped(t).an ]
  /\ sim' = [ sim EXCEPT ![t] = Stepped(t).sim ]
  /\ UNCHANGED <<last, arg, out>>

NextConcurrent == \E t \in Threads : ThreadCall(t) \/ ThreadStep(t)

SpecConcurrent == InitConcurrent /\ [][NextConcurrent]_vars

---------------------------------------------------------------------------
(* _simulate_straight called on its own (specification SpecStraight) *)

\* CarParameters with a power and a drag coefficient of the caller's, the
\* other fields at their defaults.
CarWith(power, drag_coefficient) ==
  [ CarParameters(drag_coefficient, 150, 200, 220, 260, 1200, 1400)
      EXCEPT !.power = power ]

\* Cars given to _simulate_straight: the default power with no drag, the
\* default drag, a negative drag coefficient (-1.0) and four far above the
\* typical range (100.0, 200.0, 300.0, 425.0); the default drag with no
\* power and with ten times the default power; no drag with ten times the
\* default power.
StraightCarInputs ==
  { CarWith(745000, cd) : cd \in { 0, 70, -100, 10000, 20000, 30000, 42500 } }
    \cup { CarWith(p, 70) : p \in { 0, 7450000 } }
    \cup { CarWith(7450000, 0) }

\* Distances given to it, in mm: 300 m, and 1.5 times the longest straight
\* of Monaco and of Monza.
StraightDistanceInputs ==
  { 300000,
    Get(get_track_by_name("Monaco"), "longest_straight", 800) * 1500,
    Get(get_track_by_name("Italy"), "longest_straight", 800) * 1500 }

\* _simulate_straight is entered: dt = 0.1, velocity = 50.0, position =
\* 0.0, time = 0.0.
SimulateStraightCall(car_params, distance) ==
  [ SimIdle EXCEPT !.pc = "STRAIGHT_PHASE", !.car_params = car_params,
                   !.total_straight_distance = distance,
                   !.velocity = 5000, !.velocity_log10 = 0,
                   !.position = 0, !.time = 0 ]

StraightCall ==
  /\ sim.pc = "IDLE"
  /\ \E car_params \in StraightCarInputs, distance \in StraightDistanceInputs :
        sim' = SimulateStraightCall(car_params, distance)
  /\ UNCHANGED <<an, last, arg, out>>

\* The loop ends and _simulate_straight returns time.
StraightReturn ==
  /\ sim.pc = "STRAIGHT_PHASE"
  /\ ~StraightContinues(sim)
  /\ out' = Return(sim.time * 1000)
  /\ sim' = SimIdle
  /\ UNCHANGED <<an, last, arg>>

\* The exception of a pass reaches the caller.
StraightRaise ==
  /\ sim.pc = "RAISED"
  /\ out' = sim.result
  /\ sim' = SimIdle
  /\ UNCHANGED <<an, last, arg>>

NextStraight ==
  \/ StraightCall
  \/ StraightStep
  \/ StraightReturn
  \/ StraightRaise

SpecStraight == Init /\ [][NextStraight]_vars

---------------------------------------------------------------------------
(* Calls on the caller's own objects (specification SpecFrame) *)

\* The objects a caller holds and hands to the calls: a CarParameters, a
\* current_config mapping, and the registry with its TrackConfig objects.
FrameHeaps ==
  { [ car_params |-> c, current_config |-> m, registry |-> TRACK_CONFIGS ] :
      c \in { CarParameters(70, 150, 200, 220, 260, 1200, 1400),
              CarParameters(68, 120, 160, 150, 180, 1500, 1800) },
      m \in { <<>>, [ cl_front |-> -300, cl_rear |-> -400 ] } }

\* Tracks of the simulate_lap and predict_optimal_laptime calls.
FrameTrackInputs == { "Monaco", "Monza" }

\* Track names of the analyze_circuit calls, one of them unknown.
FrameNameInputs == { "Monaco", "Atlantis" }

\* The calls a caller holding h makes: simulate_lap(h.car_params,
\* track.__dict__, race_mode), predict_optimal_laptime(h.car_params, track)
\* and analyze_circuit(track_name, h.current_config).
FrameCalls(h) ==
  { [ an |-> AnIdle,
      sim |-> SimCall(h.car_params, get_track_by_name(n), r) ] :
      n \in FrameTrackInputs, r \in BOOLEAN }
    \cup
  { [ an |-> [ AnIdle EXCEPT !.pc = "PREDICTING",
                             !.current_params = h.car_params,
                             !.track_config = get_track_by_name(n),
                             !.k = 1 ],
      sim |-> SimCall(h.car_params, get_track_by_name(n), FALSE) ] :
      n \in FrameTrackInputs }
    \cup
  { [ an |-> [ AnIdle EXCEPT !.pc = "CALLED", !.track_name = n,
                             !.current_config = h.current_config ],
      sim |-> SimIdle ] :
      n \in FrameNameInputs }

\* The next step of a predict_optimal_laptime activation a whose
\* simulate_lap activation s has ended: the race-mode call after the
\* qualifying one, then the pair of lap_time strings.
PredictStep(a, s) ==
  IF s.pc = "RAISED" THEN
    [ an |-> [ a EXCEPT !.pc = "RAISED", !.result = s.result ],
      sim |-> SimIdle ]
  ELSE IF a.k = 1 THEN
    [ an |-> [ a EXCEPT !.laps = Append(a.laps, s.result.lap_time),
                        !.k = 2 ],
      sim |-> SimCall(a.current_params, a.track_config, TRUE) ]
  ELSE
    [ an |-> [ a EXCEPT !.pc = "DONE",
                        !.laps = Append(a.laps, s.result.lap_time),
                        !.result = [ quali |-> a.laps[1],
                                     race |-> s.result.lap_time ] ],
      sim |-> SimIdle ]

\* The next step of the call c of any of the three kinds: what
\* predict_optimal_laptime does when a lap has ended, and otherwise the
\* step of analyze_circuit or of the simulate_lap call under way.
FrameCallStep(c) ==
  IF c.an.pc = "PREDICTING" /\ c.sim.pc \in {"DONE", "RAISED"}
    THEN PredictStep(c.an, c.sim)
    ELSE CallStep(c)

\* The step with analyze_circuit writing the defaults it reads into the
\* caller's mapping.
FrameSteppedFillingDefaults(h, c) ==
  [ heap |-> IF c.an.pc = "CALLED"
               THEN [ h EXCEPT !.current_config =
                        [ k \in ConfigKeys |->
                            Get(h.current_config, k, BaselineConfig[k]) ] ]
               ELSE h,
    call |-> FrameCallStep(c) ]

\* The caller's objects and the call after the call's next step: no
\* statement of the three functions assigns to an argument or to the
\* registry.
FrameStepped(h, c) == [ heap |-> h, call |-> FrameCallStep(c) ]

\* last keeps the values the caller's objects had before the first call.
InitFrame ==
  /\ an = AnIdle
  /\ sim = SimIdle
  /\ arg \in FrameHeaps
  /\ last = arg
  /\ out = None

FrameCall ==
  /\ an.pc = "IDLE"
  /\ sim.pc = "IDLE"
  /\ \E c \in FrameCalls(arg) :
       /\ an' = c.an
       /\ sim' = c.sim
  /\ UNCHANGED <<last, arg, out>>

FrameRun ==
  /\ ~(an.pc = "IDLE" /\ sim.pc = "IDLE")
  /\ ~Ended([ an |-> an, sim |-> sim ])
  /\ \E n \in { FrameStepped(arg, [ an |-> an, sim |-> sim ]) } :
       /\ arg' = n.heap
       /\ an' = n.call.an
       /\ sim' = n.call.sim
  /\ UNCHANGED <<last, out>>

\* The call returns or raises to the caller.
FrameReturn ==
  /\ ~(an.pc = "IDLE" /\ sim.pc = "IDLE")
  /\ Ended([ an |-> an, sim |-> sim ])
  /\ out' = IF an.pc = "IDLE"
              THEN (IF sim.pc = "DONE" THEN Return(sim.result) ELSE sim.result)
              ELSE (IF an.pc = "DONE" THEN Return(an.result) ELSE an.result)
  /\ an' = AnIdle
  /\ sim' = SimIdle
  /\ UNCHANGED <<last, arg>>

NextFrame ==
  \/ FrameCall
  \/ FrameRun
  \/ FrameReturn

SpecFrame == InitFrame /\ [][NextFrame]_vars

---------------------------------------------------------------------------
(* One track analysed with two mappings (specification SpecPair) *)

PairTrackInputs == { "Monaco", "Monza" }

\* The mappings: empty, the low-downforce values in full, some of the
\* high-downforce values, and lift coefficients that make the lap raise.
PairConfigInputs ==
  { <<>>,
    FullConfig,
    [ drag_coefficient |-> 75, cl_front |-> 180, cl_rear |-> 240,
      ride_height_front |-> 800, ride_height_rear |-> 1000 ],
    [ cl_front |-> -300, cl_rear |-> -400 ] }

PairFirstCall ==
  /\ an.pc = "IDLE"
  /\ sim.pc = "IDLE"
  /\ last = NoLast
  /\ \E track_name \in PairTrackInputs, current_config \in PairConfigInputs :
        an' = [ AnIdle EXCEPT !.pc = "CALLED", !.track_name = track_name,
                              !.current_config = current_config ]
  /\ UNCHANGED <<sim, last, arg, out>>

\* The caller keeps the outcome and analyses the same track again with
\* another mapping.
PairSecondCall ==
  /\ an.pc \in {"DONE", "RAISED"}
  /\ sim.pc = "IDLE"
  /\ last = NoLast
  /\ last' = [ track_name |-> an.track_name,
               current_config |-> an.current_config,
               pc |-> an.pc, result |-> an.result ]
  /\ \E current_config \in PairConfigInputs \ {an.current_config} :
        an' = [ AnIdle EXCEPT !.pc = "CALLED", !.track_name = an.track_name,
                              !.current_config = current_config ]
  /\ UNCHANGED <<sim, arg, out>>

NextPair ==
  \/ PairFirstCall
  \/ PairSecondCall
  \/ AnalyzeLookup
  \/ Setup
  \/ StraightStep
  \/ StraightExit
  \/ CornerStep
  \/ Finish
  \/ AnalyzeCollect
  \/ AnalyzeFinish
  \/ AnalyzeRaise

SpecPair == Init /\ [][NextPair]_vars

---------------------------------------------------------------------------
(* Laps of every registry track (specification SpecRegistry) *)

\* Cars with the default mass and tire friction and no negative lift
\* coefficient: the three presets and a car without lift.
RegistryCarInputs ==
  { CarParameters(70, 150, 200, 220, 260, 1200, 1400),
    CarParameters(68, 120, 160, 150, 180, 1500, 1800),
    CarParameters(75, 180, 240, 300, 350, 800, 1000),
    CarParameters(70, 0, 0, 220, 260, 1200, 1400) }

\* A caller calls simulate_lap with the __dict__ of a registry track.
RegistryLapCall ==
  /\ an.pc = "IDLE"
  /\ sim.pc = "IDLE"
  /\ \E k \in 1..Len(TRACK_CONFIGS), car_params \in RegistryCarInputs,
        race_mode \in BOOLEAN :
        sim' = SimCall(car_params, TRACK_CONFIGS[k][2], race_mode)
  /\ UNCHANGED <<an, last, arg, out>>

\* The call returns or raises to that caller.
RegistryLapReturn ==
  /\ an.pc = "IDLE"
  /\ sim.pc \in {"DONE", "RAISED"}
  /\ sim' = SimIdle
  /\ UNCHANGED <<an, last, arg, out>>

NextRegistry ==
  \/ RegistryLapCall
  \/ Setup
  \/ StraightStep
  \/ StraightExit
  \/ CornerStep
  \/ Finish
  \/ RegistryLapReturn

SpecRegistry == Init /\ [][NextRegistry]_vars

---------------------------------------------------------------------------
(* Properties of analyze_circuit (specification Spec) *)

\* The preset a downforce class stands for, in the five fields of
\* optimal_config.
PresetOfClass(level) ==
  IF level = LOW
    THEN [ drag_coefficient |-> 68, cl_front |-> 120, cl_rear |-> 160,
           front_wing_angle |-> 150, rear_wing_angle |-> 180 ]
  ELSE IF level = HIGH
    THEN [ drag_coefficient |-> 75, cl_front |-> 180, cl_rear |-> 240,
           front_wing_angle |-> 300, rear_wing_angle |-> 350 ]
  ELSE [ drag_coefficient |-> 70, cl_front |-> 150, cl_rear |-> 200,
         front_wing_angle |-> 220, rear_wing_angle |-> 260 ]

\* C1: whenever analyze_circuit has returned a CircuitAnalysis, its
\* optimal_config carries exactly the values of the preset of the track's
\* own downforce class: the low preset on a LOW track, the high preset on a
\* HIGH track, the medium preset on a MEDIUM track.
C1_OptimalConfigIsPresetOfClass ==
  an.pc = "DONE" =>
    an.result.optimal_config = PresetOfClass(an.track_config.downforce_level)

\* What the code does instead: every returned optimal_config is the medium
\* preset, whatever the class of the track.
C1_OptimalConfigIsAlwaysMedium ==
  an.pc = "DONE" => an.result.optimal_config = PresetOfClass(MEDIUM)

\* analyze_circuit has returned for a LOW track and for a HIGH track.
C1_ReturnedForLowTrack ==
  an.pc = "DONE" /\ an.track_config.downforce_level = LOW

\* The positions of the registry whose lower-cased key or official name
\* contains the lower-cased query.
PartialMatches(q) ==
  { k \in 1..Len(TRACK_CONFIGS) :
      \/ Contains(Lower(TRACK_CONFIGS[k][1]), Lower(q))
      \/ Contains(Lower(TRACK_CONFIGS[k][2].name), Lower(q)) }

\* The resolution of a name as the contract states it: the entry of the
\* key equal to the name; otherwise the first entry, in registry order,
\* that matches partially; otherwise None.
Resolved(q) ==
  IF \E k \in 1..Len(TRACK_CONFIGS) : TRACK_CONFIGS[k][1] = q
    THEN LET k == CHOOSE k \in 1..Len(TRACK_CONFIGS) : TRACK_CONFIGS[k][1] = q
         IN  TRACK_CONFIGS[k][2]
  ELSE IF PartialMatches(q) = {} THEN None
  ELSE LET k == CHOOSE k \in PartialMatches(q) :
                  \A j \in PartialMatches(q) : k <= j
       IN  TRACK_CONFIGS[k][2]

\* The resolution of every name analyze_circuit is called with.
ResolvedInputs == [ q \in TrackNameInputs |-> Resolved(q) ]

\* C2: once the lookup of analyze_circuit is over for a name that resolves
\* to no registry entry, the call has ended in ValueError naming that
\* track; no track was substituted, no simulate_lap call was made and no
\* CircuitAnalysis is returned.
C2_UnknownTrackIsNotFound ==
  (an.pc \notin {"IDLE", "CALLED"} /\ ResolvedInputs[an.track_name] = None) =>
    /\ an.pc = "RAISED"
    /\ an.result = [ raised |-> TRUE, exc |-> "ValueError",
                     track |-> an.track_name ]
    /\ an.track_config = None
    /\ an.current_params = None
    /\ an.laps = <<>>
    /\ sim = SimIdle

\* analyze_circuit("Nonexistent Track", ...) has ended.
C2_NonexistentTrackRaised ==
  /\ an.pc = "RAISED"
  /\ an.track_name = "Nonexistent Track"
  /\ an.result.exc = "ValueError"

\* C3: the track the lookup of analyze_circuit continues with is the
\* entry of the key equal to the name if there is one, otherwise the first
\* entry in registry order whose key or official name contains the
\* lower-cased name, otherwise None; "Monza" resolves to the Italy entry,
\* never ends in NotFound, and a returned analysis of it has
\* downforce_requirement "low".
C3_ResolutionOrder ==
  /\ an.pc \notin {"IDLE", "CALLED"} =>
       an.track_config = ResolvedInputs[an.track_name]
  /\ (an.pc \notin {"IDLE", "CALLED"} /\ an.track_name = "Monza") =>
       /\ an.track_config.name = "Autodromo Nazionale di Monza"
       /\ an.track_config = ResolvedInputs["Italy"]
       /\ an.pc = "RAISED" => "track" \notin DOMAIN an.result
       /\ an.pc = "DONE" => an.result.downforce_requirement = Str("low")

\* analyze_circuit("Monza", ...) has returned its analysis.
C3_MonzaAnalysed ==
  /\ an.pc = "DONE"
  /\ an.track_name = "Monza"
  /\ an.result.downforce_requirement = Str("low")

\* The milliseconds a lap time string M:SS.mmm stands for, read by
\* position: three digits of milliseconds at the end, two of seconds
\* before the point, the minutes before the colon.
LapTimeMillis(str) ==
  LET n == Len(str)
  IN  Natural(SubSeq(str, 1, n - 7)) * 60000
        + Natural(SubSeq(str, n - 5, n - 4)) * 1000
        + Natural(SubSeq(str, n - 2, n))

\* C19: in the CircuitAnalysis returned, time_gain_quali is the current
\* configuration's qualifying lap time minus the optimal configuration's,
\* and time_gain_race the same for the race laps, each lap time being the
\* milliseconds of its string; the lap times reported are the optimal
\* ones, a gain is positive exactly when the optimal lap is the shorter
\* one, and both gains are 0 when the current parameters are the optimal
\* ones.
C19_TimeGainIsCurrentMinusOptimal ==
  an.pc = "DONE" =>
    LET current_quali == LapTimeMillis(an.laps[1])
        current_race == LapTimeMillis(an.laps[2])
        optimal_quali == LapTimeMillis(an.laps[3])
        optimal_race == LapTimeMillis(an.laps[4])
    IN  /\ an.result.qualifying_lap_time = an.laps[3]
        /\ an.result.race_lap_time = an.laps[4]
        /\ an.result.time_gain_quali = (current_quali - optimal_quali) * 10
        /\ an.result.time_gain_race = (current_race - optimal_race) * 10
        /\ an.result.time_gain_quali > 0 <=> optimal_quali < current_quali
        /\ an.result.time_gain_race > 0 <=> optimal_race < current_race
        /\ an.current_params = an.optimal_params =>
             /\ an.result.time_gain_quali = 0
             /\ an.result.time_gain_race = 0

\* An analysis has returned with gains that are not whole seconds, for a
\* current configuration that is not the optimal one.
C19_ReturnedWithFractionalGains ==
  /\ an.pc = "DONE"
  /\ an.current_params # an.optimal_params
  /\ an.result.time_gain_quali % 10000 # 0
  /\ an.result.time_gain_race % 10000 # 0
  /\ an.result.time_gain_quali # an.result.time_gain_race

\* An analysis has returned with both gains 0, the current configuration
\* being the optimal one.
C19_ReturnedWithoutGain ==
  /\ an.pc = "DONE"
  /\ an.current_params = an.optimal_params
  /\ an.result.time_gain_quali = 0
  /\ an.result.time_gain_race = 0

---------------------------------------------------------------------------
(* Properties of simulate_lap (specification SpecLap) *)

\* The call that has just finished and the call before it were made with
\* the same track.
SameTrackAsLast ==
  /\ sim.pc = "DONE"
  /\ last.outcome # None
  /\ ~last.outcome.raised
  /\ sim.track_config = last.track_config

\* C4: when simulate_lap returns in race mode for the CarParameters and
\* track it returned for in qualifying mode just before, its
\* lap_time_seconds is strictly greater than the qualifying one, and is
\* the qualifying one times 1.007 times 1.003 (1.010021), to within 0.3 ms.
C4_RaceIsQualifyingTimesPenalties ==
  (SameTrackAsLast /\ sim.car_params = last.car_params
     /\ sim.race_mode /\ ~last.race_mode) =>
    LET quali == last.outcome.value.lap_time_seconds
        race == sim.result.lap_time_seconds
    IN  /\ race > quali
        /\ Abs((race - quali) - ((quali \div 100) * 10021) \div 10000) <= 3

\* A race lap has been simulated right after the qualifying lap of the
\* same car on the same track.
C4_RaceAfterQualifying ==
  /\ SameTrackAsLast
  /\ sim.car_params = last.car_params
  /\ sim.race_mode
  /\ ~last.race_mode
  /\ sim.result.lap_time_seconds > 600000

\* C5: when simulate_lap returns for CarParameters that differ from those
\* of the call before only in a drag coefficient that is not lower, on the
\* same track and in the same mode, its lap_time_seconds is not lower, its
\* straight time is not lower, and its corner time is the same.
C5_MoreDragIsNeverFaster ==
  (SameTrackAsLast /\ sim.race_mode = last.race_mode
     /\ sim.car_params =
          [ last.car_params EXCEPT
              !.drag_coefficient = sim.car_params.drag_coefficient ]
     /\ last.car_params.drag_coefficient <= sim.car_params.drag_coefficient) =>
    /\ sim.result.lap_time_seconds >= last.outcome.value.lap_time_seconds
    /\ sim.result.straight_time >= last.outcome.value.straight_time
    /\ sim.result.corner_time = last.outcome.value.corner_time

\* The same comparison for drag coefficients of at most 0.75.
C5_MoreDragIsNeverFasterInTypicalRange ==
  (SameTrackAsLast /\ sim.race_mode = last.race_mode
     /\ sim.car_params =
          [ last.car_params EXCEPT
              !.drag_coefficient = sim.car_params.drag_coefficient ]
     /\ last.car_params.drag_coefficient <= sim.car_params.drag_coefficient
     /\ sim.car_params.drag_coefficient <= 75) =>
    /\ sim.result.lap_time_seconds >= last.outcome.value.lap_time_seconds
    /\ sim.result.straight_time >= last.outcome.value.straight_time
    /\ sim.result.corner_time = last.outcome.value.corner_time

\* A lap with a higher drag coefficient has been simulated right after one
\* with a lower, everything else the same.
C5_HigherDragAfterLower ==
  /\ SameTrackAsLast
  /\ sim.race_mode = last.race_mode
  /\ sim.car_params =
       [ last.car_params EXCEPT
           !.drag_coefficient = sim.car_params.drag_coefficient ]
  /\ last.car_params.drag_coefficient < sim.car_params.drag_coefficient

\* C7: simulate_lap in qualifying mode with Cd 0.70, cl 1.5/2.0, wings
\* 22/26, ride heights 12/14 and the other parameters at their defaults,
\* on the Monza descriptor (5.793 km, 11 corners, longest straight 1150 m),
\* returns lap_time_seconds strictly between 60 and 120.
C7_MonzaDefaultLapBetween60And120 ==
  (/\ sim.pc = "DONE"
   /\ ~sim.race_mode
   /\ sim.car_params = CarParameters(70, 150, 200, 220, 260, 1200, 1400)
   /\ sim.track_config.name = "Autodromo Nazionale di Monza") =>
    /\ sim.track_config.circuit_length = 5793
    /\ sim.track_config.corner_count = 11
    /\ sim.track_config.longest_straight = 1150
    /\ sim.car_params.mass = 798
    /\ sim.car_params.power = 745000
    /\ sim.car_params.tire_friction = 20
    /\ sim.result.lap_time_seconds > 600000
    /\ sim.result.lap_time_seconds < 1200000
    /\ sim.result.lap_time_seconds =
         sim.result.straight_time + sim.result.corner_time

\* That lap has been simulated.
C7_MonzaDefaultLapSimulated ==
  /\ sim.pc = "DONE"
  /\ ~sim.race_mode
  /\ sim.car_params = CarParameters(70, 150, 200, 220, 260, 1200, 1400)
  /\ sim.track_config.name = "Autodromo Nazionale di Monza"
  /\ sim.i = 11
  /\ sim.result.lap_time_seconds \in 600001..1199999

---------------------------------------------------------------------------
(* Properties of the result dict (specification SpecFormat) *)

\* A string of the form M:SS.mmm: minutes digits, a colon, two seconds
\* digits below 60, a dot, three millisecond digits.
IsLapTimeString(str) ==
  LET n == Len(str)
  IN  /\ n >= 8
      /\ IsDigits(SubSeq(str, 1, n - 7))
      /\ SubSeq(str, n - 6, n - 6) = ":"
      /\ IsDigits(SubSeq(str, n - 5, n - 4))
      /\ Natural(SubSeq(str, n - 5, n - 4)) < 60
      /\ SubSeq(str, n - 3, n - 3) = "."
      /\ IsDigits(SubSeq(str, n - 2, n))

\* C6: for every non-negative total lap time the lap_time string of the
\* result has the form M:SS.mmm with a two-digit seconds field strictly
\* below 60, also when the remainder is within half a millisecond below a
\* whole minute.
C6_LapTimeStringIsWellFormed ==
  (out # None /\ out.lap_time_seconds >= 0) => IsLapTimeString(out.lap_time)

\* The same for totals whose remainder does not round up to a whole
\* minute.
C6_WellFormedAwayFromRounding ==
  (out # None /\ out.lap_time_seconds >= 0
     /\ out.lap_time_seconds % 600000 < 599995) =>
    IsLapTimeString(out.lap_time)

\* A total of 119.9996 s has been formatted.
C6_FormattedJustBelowTwoMinutes ==
  out # None /\ out.lap_time_seconds = 1199996

---------------------------------------------------------------------------
(* Properties of the force model (specification SpecAero) *)

\* The values the force functions return at velocity 0.
IsNeutralAtRest(fn, value) ==
  /\ fn = "calculate_drag_force" => value = 0
  /\ fn = "calculate_downforce" => value = <<0, 0, 0>>
  /\ fn = "calculate_lift_to_drag_ratio" => value = 0
  /\ fn = "calculate_aerodynamic_balance" => value = 5000
  /\ fn = "calculate_pressure_distribution" => value.dynamic_pressure = 0
  /\ fn = "calculate_reynolds_number" => value = 0
  /\ fn = "calculate_porpoising_risk" => value.risk_score = 0

\* C8: a function of the force model called on a state with velocity 0 or
\* with a zero drag or lift coefficient returns without raising (DRS open
\* or closed), and at velocity 0 the value is zero or the neutral default.
C8_ZeroInputsNeverRaise ==
  (out # None /\ (\/ arg.state.velocity = 0
                  \/ arg.state.drag_coefficient = 0
                  \/ arg.state.lift_coefficient_front = 0
                  \/ arg.state.lift_coefficient_rear = 0)) =>
    /\ ~out.outcome.raised
    /\ arg.state.velocity = 0 => IsNeutralAtRest(out.fn, out.outcome.value)

\* The same with the DRS-open call of calculate_drs_effect left out.
C8_ZeroInputsNeverRaiseButDrsOpen ==
  (out # None /\ ~(out.fn = "calculate_drs_effect" /\ arg.drs_open)
     /\ (\/ arg.state.velocity = 0
         \/ arg.state.drag_coefficient = 0
         \/ arg.state.lift_coefficient_front = 0
         \/ arg.state.lift_coefficient_rear = 0)) =>
    /\ ~out.outcome.raised
    /\ arg.state.velocity = 0 => IsNeutralAtRest(out.fn, out.outcome.value)

\* calculate_drs_effect has been called with DRS open at velocity 0.
C8_DrsOpenAtRest ==
  /\ out # None
  /\ out.fn = "calculate_drs_effect"
  /\ arg.drs_open
  /\ arg.state.velocity = 0

\* C9: calculate_drs_effect with DRS closed returns drag_reduction,
\* downforce_loss and speed_gain all 0; with DRS open, on a state with
\* positive coefficients and a velocity >= 0, it returns drag_reduction =
\* 0.10 * Cd > 0 and downforce_loss = 0.15 * Cl_rear > 0.
C9_DrsDeltas ==
  (out # None /\ out.fn = "calculate_drs_effect") =>
    /\ ~arg.drs_open =>
         out.outcome = Return([ drag_reduction |-> 0, downforce_loss |-> 0,
                                speed_gain |-> 0 ])
    /\ (arg.drs_open /\ arg.state.drag_coefficient > 0
          /\ arg.state.lift_coefficient_front > 0
          /\ arg.state.lift_coefficient_rear > 0
          /\ arg.state.velocity >= 0) =>
         /\ ~out.outcome.raised
         /\ out.outcome.value.drag_reduction = 10 * arg.state.drag_coefficient
         /\ out.outcome.value.drag_reduction > 0
         /\ out.outcome.value.downforce_loss = 15 * arg.state.lift_coefficient_rear
         /\ out.outcome.value.downforce_loss > 0

\* The same where the drag force is not 0.
C9_DrsDeltasWithDrag ==
  (out # None /\ out.fn = "calculate_drs_effect") =>
    /\ ~arg.drs_open =>
         out.outcome = Return([ drag_reduction |-> 0, downforce_loss |-> 0,
                                speed_gain |-> 0 ])
    /\ (arg.drs_open /\ arg.state.drag_coefficient > 0
          /\ arg.state.lift_coefficient_front > 0
          /\ arg.state.lift_coefficient_rear > 0
          /\ arg.state.velocity > 0 /\ arg.state.frontal_area > 0) =>
         /\ ~out.outcome.raised
         /\ out.outcome.value.drag_reduction = 10 * arg.state.drag_coefficient
         /\ out.outcome.value.drag_reduction > 0
         /\ out.outcome.value.downforce_loss = 15 * arg.state.lift_coefficient_rear
         /\ out.outcome.value.downforce_loss > 0

\* calculate_drs_effect has been called with DRS open on a state with
\* positive coefficients, at rest.
C9_DrsOpenPositiveCoefficientsAtRest ==
  /\ out # None
  /\ out.fn = "calculate_drs_effect"
  /\ arg.drs_open
  /\ arg.state.drag_coefficient > 0
  /\ arg.state.lift_coefficient_front > 0
  /\ arg.state.lift_coefficient_rear > 0
  /\ arg.state.frontal_area > 0
  /\ arg.state.velocity = 0

\* C10: calculate_lift_to_drag_ratio returns exactly 0 whenever the drag
\* force is 0 (velocity 0, Cd 0 or frontal area 0), and
\* calculate_aerodynamic_balance returns exactly 50.0 whenever the total
\* downforce is 0; neither divides (raises ZeroDivisionError) there.
C10_ZeroDragAndZeroDownforceDefaults ==
  out # None =>
    /\ (arg.state.velocity = 0 \/ arg.state.drag_coefficient = 0
          \/ arg.state.frontal_area = 0) =>
         calculate_drag_force(arg.state) = 0
    /\ (out.fn = "calculate_lift_to_drag_ratio"
          /\ calculate_drag_force(arg.state) = 0) =>
         out.outcome = Return(0)
    /\ (out.fn = "calculate_aerodynamic_balance"
          /\ calculate_downforce(arg.state)[3] = 0) =>
         out.outcome = Return(5000)

\* calculate_lift_to_drag_ratio has been called on a state with drag 0
\* and a downforce that is not 0.
C10_RatioCalledWithoutDrag ==
  /\ out # None
  /\ out.fn = "calculate_lift_to_drag_ratio"
  /\ arg.state.drag_coefficient = 0
  /\ calculate_drag_force(arg.state) = 0
  /\ calculate_downforce(arg.state)[3] > 0

\* The state satisfies the stated invariant of AeroState: velocity >= 0,
\* positive coefficients and frontal area, non-negative ride heights.
IsPhysicalState(state) ==
  /\ state.velocity >= 0
  /\ state.drag_coefficient > 0
  /\ state.lift_coefficient_front > 0
  /\ state.lift_coefficient_rear > 0
  /\ state.frontal_area > 0
  /\ state.ride_height_front >= 0
  /\ state.ride_height_rear >= 0

\* C11: on a state with velocity >= 0, positive coefficients and frontal
\* area and non-negative ride heights, whatever the wing angles and the
\* yaw angle, calculate_drag_force is >= 0 and the front, the rear and the
\* total downforce of calculate_downforce are each >= 0.
C11_ForcesAreNonNegative ==
  (out # None /\ IsPhysicalState(arg.state)) =>
    /\ out.fn = "calculate_drag_force" => out.outcome.value >= 0
    /\ out.fn = "calculate_downforce" =>
         /\ out.outcome.value[1] >= 0
         /\ out.outcome.value[2] >= 0
         /\ out.outcome.value[3] >= 0

\* The same for wing angles of at least -25 degrees.
C11_NonNegativeAboveMinus25Degrees ==
  (out # None /\ IsPhysicalState(arg.state)
     /\ arg.state.wing_angle_front >= -250
     /\ arg.state.wing_angle_rear >= -250) =>
    /\ out.fn = "calculate_drag_force" => out.outcome.value >= 0
    /\ out.fn = "calculate_downforce" =>
         /\ out.outcome.value[1] >= 0
         /\ out.outcome.value[2] >= 0
         /\ out.outcome.value[3] >= 0

\* calculate_downforce has been called on a moving car with positive
\* coefficients and a front wing at -30 degrees.
C11_DownforceWithNegativeWingAngle ==
  /\ out # None
  /\ out.fn = "calculate_downforce"
  /\ IsPhysicalState(arg.state)
  /\ arg.state.velocity > 0
  /\ arg.state.wing_angle_front = -300

---------------------------------------------------------------------------
(* Properties of the helper functions (specification SpecPure) *)

\* The call that has just been made and the call before it are calls of fn.
TwoCallsOf(fn) ==
  /\ arg # None
  /\ arg.fn = fn
  /\ last.arg # None
  /\ last.arg.fn = fn

\* C12: the ground-effect multiplier has no jump: two ride heights no more
\* than 0.02 mm apart (in particular 4.99 and 5 mm, and 12 and 12.01 mm)
\* have multipliers no more than 0.001 apart; and the multiplier is
\* non-negative for every ride height >= 0.
C12_GroundEffectIsContinuous ==
  /\ (arg # None /\ arg.fn = "_ground_effect_factor" /\ arg.x >= 0) =>
       out.value >= 0
  /\ (TwoCallsOf("_ground_effect_factor") /\ Abs(arg.x - last.arg.x) <= 2) =>
       Abs(out.value - last.out.value) <= 10

\* The multipliers are non-negative, and continuous away from 5 and 12 mm.
C12_ContinuousAwayFromBoundaries ==
  /\ (arg # None /\ arg.fn = "_ground_effect_factor" /\ arg.x >= 0) =>
       out.value >= 0
  /\ (TwoCallsOf("_ground_effect_factor") /\ Abs(arg.x - last.arg.x) <= 2
        /\ ~(Min(arg.x, last.arg.x) < 500 /\ Max(arg.x, last.arg.x) >= 500)
        /\ ~(Min(arg.x, last.arg.x) <= 1200 /\ Max(arg.x, last.arg.x) > 1200)) =>
       Abs(out.value - last.out.value) <= 10

\* The multiplier has been taken at 4.99 mm and then at 5 mm.
C12_TakenEitherSideOf5mm ==
  /\ TwoCallsOf("_ground_effect_factor")
  /\ last.arg.x = 499
  /\ arg.x = 500

\* C13: for two ride heights h1 <= h2 in [5, 12] mm the multiplier of h1
\* is >= the multiplier of h2, and on that interval the multiplier is
\* 1.0 + 0.3 * (12 - h) / 12.
C13_GroundEffectNonIncreasingInOptimalZone ==
  /\ (arg # None /\ arg.fn = "_ground_effect_factor"
        /\ arg.x >= 500 /\ arg.x <= 1200) =>
       Abs(12 * out.value - (120000 + 30 * (1200 - arg.x))) < 12
  /\ (TwoCallsOf("_ground_effect_factor")
        /\ 500 <= last.arg.x /\ last.arg.x <= arg.x /\ arg.x <= 1200) =>
       last.out.value >= out.value

\* The multiplier has been taken at 5 mm and then at 12 mm.
C13_TakenAt5Then12mm ==
  /\ TwoCallsOf("_ground_effect_factor")
  /\ last.arg.x = 500
  /\ arg.x = 1200
  /\ last.out.value > out.value

\* C14: _wing_efficiency is exactly 0.3 for every angle >= 40 degrees and
\* min(0.5 + angle/50, 1.0) for every angle < 40 degrees, and the
\* efficiency at 39.9 degrees is strictly greater than at 40.0 degrees.
C14_WingStallCliff ==
  /\ (arg # None /\ arg.fn = "_wing_efficiency") =>
       /\ arg.x >= 400 => out.value = 3000
       /\ arg.x < 400 =>
            out.value = Min(5000 + (arg.x * 1000) \div 50, 10000)
  /\ (TwoCallsOf("_wing_efficiency") /\ last.arg.x = 399 /\ arg.x = 400) =>
       last.out.value > out.value

\* The efficiency has been taken at 39.9 and then at 40.0 degrees.
C14_TakenAt399Then400 ==
  /\ TwoCallsOf("_wing_efficiency")
  /\ last.arg.x = 399
  /\ arg.x = 400
  /\ last.out.value = 10000
  /\ out.value = 3000

\* The three presets, all seven fields.
FullPreset(level) ==
  IF level = "low"
    THEN [ drag_coefficient |-> 68, cl_front |-> 120, cl_rear |-> 160,
           front_wing_angle |-> 150, rear_wing_angle |-> 180,
           ride_height_front |-> 1500, ride_height_rear |-> 1800 ]
  ELSE IF level = "high"
    THEN [ drag_coefficient |-> 75, cl_front |-> 180, cl_rear |-> 240,
           front_wing_angle |-> 300, rear_wing_angle |-> 350,
           ride_height_front |-> 800, ride_height_rear |-> 1000 ]
  ELSE [ drag_coefficient |-> 70, cl_front |-> 150, cl_rear |-> 200,
         front_wing_angle |-> 220, rear_wing_angle |-> 260,
         ride_height_front |-> 1200, ride_height_rear |-> 1400 ]

\* The mapping has no 'downforce_level' entry.
Missing == [ t |-> "missing", v |-> "" ]

\* The 'downforce_level' entry of a mapping, Missing when there is none.
LevelOf(track_characteristics) ==
  IF "downforce_level" \in DOMAIN track_characteristics
    THEN track_characteristics.downforce_level
    ELSE Missing

\* C15: the result of optimize_for_track is one of the three presets; it
\* is the low preset for the level 'low', the high preset for 'high' and
\* the medium preset for every other or missing level; two calls whose
\* mappings have the same level entry return the same result, whatever
\* their other fields.
C15_OptimizeIsLookupOnLevel ==
  /\ (arg # None /\ arg.fn = "optimize_for_track") =>
       /\ out.value \in { FullPreset("low"), FullPreset("medium"),
                          FullPreset("high") }
       /\ LevelOf(arg.x) = Str("low") => out.value = FullPreset("low")
       /\ LevelOf(arg.x) = Str("high") => out.value = FullPreset("high")
       /\ LevelOf(arg.x) \notin { Str("low"), Str("high") } =>
            out.value = FullPreset("medium")
  /\ (TwoCallsOf("optimize_for_track")
        /\ LevelOf(arg.x) = LevelOf(last.arg.x)) =>
       out.value = last.out.value

\* optimize_for_track has been called on a mapping without a level right
\* after a mapping with the level 'low' and other fields.
C15_MissingLevelAfterLow ==
  /\ TwoCallsOf("optimize_for_track")
  /\ LevelOf(last.arg.x) = Str("low")
  /\ "circuit_length" \in DOMAIN last.arg.x
  /\ last.out.value = FullPreset("low")
  /\ LevelOf(arg.x) = Missing
  /\ out.value = FullPreset("medium")

---------------------------------------------------------------------------
(* Properties of the phases of simulate_lap *)

\* The steps the straight-phase loop has run: time counts them, 0.1 s each.
StraightSteps == sim.time

\* C16: every simulate_lap call on a valid track goes through INIT,
\* STRAIGHT_PHASE and CORNER_PHASE to DONE and never ends otherwise; the
\* straight-phase loop runs at most 600 steps, the straight time returned
\* is at most 60 s, for every drag coefficient, and the corner loop runs
\* exactly corner_count iterations.
C16_EveryLapRunsItsPhasesToDone ==
  /\ sim.pc \in {"IDLE", "INIT", "STRAIGHT_PHASE", "CORNER_PHASE", "DONE"}
  /\ StraightSteps <= 600
  /\ sim.pc \in {"CORNER_PHASE", "DONE"} =>
       /\ sim.straight_time <= 600000
       /\ sim.i <= sim.corner_count
  /\ sim.pc = "DONE" =>
       /\ sim.i = sim.corner_count
       /\ sim.result.straight_time <= 600000

\* The phases follow one another in the order INIT, STRAIGHT_PHASE,
\* CORNER_PHASE, DONE, each of the last three also able to end in an
\* exception; the loops stay within 600 steps and corner_count
\* iterations, and a call that reaches DONE has run exactly corner_count
\* corner iterations and returns a straight time of at most 60 s.
C16_PhasesInOrderAndLoopsBounded ==
  [][ /\ sim'.pc # sim.pc =>
           <<sim.pc, sim'.pc>> \in
             { <<"IDLE", "INIT">>, <<"INIT", "STRAIGHT_PHASE">>,
               <<"STRAIGHT_PHASE", "CORNER_PHASE">>,
               <<"CORNER_PHASE", "DONE">>, <<"DONE", "IDLE">>,
               <<"STRAIGHT_PHASE", "RAISED">>, <<"CORNER_PHASE", "RAISED">>,
               <<"RAISED", "IDLE">> }
      /\ sim'.time <= 600
      /\ sim'.i <= sim'.corner_count
      /\ sim'.pc = "DONE" =>
           /\ sim'.i = sim'.corner_count
           /\ sim'.result.straight_time <= 600000 ]_vars

\* A call with the drag coefficient 300.0 has ended in the twelfth pass of
\* the straight-phase loop with OverflowError.
C16_OverflowInStraightPhase ==
  /\ sim.pc = "RAISED"
  /\ sim.car_params.drag_coefficient = 30000
  /\ sim.result = Raise("OverflowError")
  /\ StraightSteps = 11
  /\ sim.velocity_log10 > 0

\* A call with the drag coefficient 425.0 has reached DONE after 600
\* steps with the velocity at -inf.
C16_DoneAtTheTimeLimit ==
  /\ sim.pc = "DONE"
  /\ sim.car_params.drag_coefficient = 42500
  /\ StraightSteps = 600
  /\ sim.velocity_log10 = INF_LOG10
  /\ sim.result.straight_time = 600000
  /\ sim.i = sim.corner_count

\* C17: simulate_lap never raises, whatever the drag and lift
\* coefficients of the car (zero, very large or negative): every call
\* returns, with a finite lap time.
C17_ExtremeCoefficientsNeverRaise ==
  /\ sim.pc # "RAISED"
  /\ sim.pc = "DONE" => sim.result.lap_time_seconds \in Nat
  /\ last # NoLast => ~last.outcome.raised

\* The calls that raise are those that leave the float range in the
\* straight phase (OverflowError) and those whose car generates lift
\* (ValueError from the square root in the corner phase); zero and
\* negative drag coefficients and zero lift coefficients return.
C17_RaisesOnlyOnOverflowOrLift ==
  /\ sim.pc = "RAISED" =>
       \/ /\ sim.result = Raise("OverflowError")
          /\ sim.car_params.drag_coefficient = 30000
       \/ /\ sim.result = Raise("ValueError")
          /\ sim.car_params.cl_front < 0
  /\ sim.pc = "DONE" =>
       /\ sim.car_params.drag_coefficient # 30000
       /\ sim.car_params.cl_front >= 0
       /\ sim.result.lap_time_seconds > 0

\* A call whose car has the lift coefficients -3.0 and -4.0 has ended in
\* the corner phase with ValueError.
C17_ValueErrorInCornerPhase ==
  /\ sim.pc = "RAISED"
  /\ sim.car_params.cl_front = -300
  /\ sim.car_params.cl_rear = -400
  /\ sim.result = Raise("ValueError")
  /\ sim.straight_time > 0

---------------------------------------------------------------------------
(* Properties of analyze_circuit on partial mappings (SpecPartial) *)

\* C18: analyze_circuit on a known track succeeds whichever of the seven
\* configuration keys are absent (the values present being those of a
\* car that generates downforce); the current parameters take the
\* mapping's value for a key that is present and the baseline value for
\* one that is absent; and the analysis with the baseline values written
\* out for the absent keys ends the same way with the same result.
C18_AbsentKeysTakeBaselineDefaults ==
  /\ an.pc = "RAISED" => Get(an.current_config, "cl_front", 0) < 0
  /\ an.pc \in {"SIMULATING", "DONE"} =>
       \A k \in ConfigKeys :
         an.current_params[k] =
           IF k \in DOMAIN an.current_config THEN an.current_config[k]
                                             ELSE BaselineConfig[k]
  /\ (an.pc \in {"DONE", "RAISED"} /\ last # NoLast) =>
       /\ last.pc = an.pc
       /\ an.result = last.result

\* The analysis of Monza with only the rear wing angle present has
\* returned, and so has the one with the six other keys written out.
C18_ExplicitAfterPartial ==
  /\ an.pc = "DONE"
  /\ last # NoLast
  /\ last.track_name = "Monza"
  /\ DOMAIN last.current_config = {"rear_wing_angle"}
  /\ DOMAIN an.current_config = ConfigKeys
  /\ an.current_config.rear_wing_angle = 180
  /\ an.current_config.front_wing_angle = 220
  /\ last.pc = "DONE"

---------------------------------------------------------------------------
(* Properties of compare_with_baseline (specification SpecCompare) *)

\* C20: compare_with_baseline never raises; for a track name that
\* resolves to no registry entry it returns just comparison_available
\* False; for one that resolves it returns comparison_available True with
\* the two lap time strings, and, the predicted time being a lap time
\* string, delta_seconds is the predicted time minus the baseline and
\* percentage_diff is delta_seconds / baseline * 100 (rounded down to
\* 1/100 percent).
C20_ComparisonOrUnavailable ==
  (arg # None /\ arg.fn = "compare_with_baseline") =>
    LET track_config == ResolvedInputs[arg.track_name]
    IN  /\ ~out.raised
        /\ track_config = None =>
             out.value = [ comparison_available |-> FALSE ]
        /\ track_config # None =>
             /\ out.value.comparison_available
             /\ out.value.baseline_2024 = track_config.fastest_quali_2024.v
             /\ out.value.predicted_2025 = arg.predicted_time
             /\ IsLapTimeString(arg.predicted_time) =>
                  LET baseline ==
                        LapTimeMillis(track_config.fastest_quali_2024.v)
                      delta == LapTimeMillis(arg.predicted_time) - baseline
                      percentage_diff == out.value.percentage_diff
                  IN  /\ out.value.delta_seconds = delta * 10
                      /\ percentage_diff * (baseline \div 10) <= delta * 1000
                      /\ delta * 1000
                           < (percentage_diff + 1) * (baseline \div 10)

\* compare_with_baseline has returned for a track name that resolves to
\* nothing.
C20_UnavailableForUnknownTrack ==
  /\ arg # None
  /\ arg.fn = "compare_with_baseline"
  /\ arg.track_name = "Nonexistent Track"
  /\ arg.predicted_time = "1:14.589"
  /\ out = Return([ comparison_available |-> FALSE ])

\* compare_with_baseline has returned a comparison for Monza in which the
\* predicted lap is the shorter one.
C20_ComparedWithMonzaBaseline ==
  /\ arg # None
  /\ arg.fn = "compare_with_baseline"
  /\ arg.track_name = "Monza"
  /\ arg.predicted_time = "1:14.589"
  /\ ~out.raised
  /\ out.value.comparison_available
  /\ out.value.baseline_2024 = "1:19.327"
  /\ out.value.delta_seconds = -47380
  /\ out.value.percentage_diff = -598

---------------------------------------------------------------------------
(* Properties of repeated calls (specification SpecRepeat) *)

---------------------------------------------------------------------------
(* Properties of interleaved calls (specification SpecConcurrent) *)

\* The number of steps of a call taken in one segment when its states are
\* collected.
SegmentLength == 24

\* Up to n + 1 consecutive states of a call from c on, run alone.
RECURSIVE Segment(_, _)
Segment(c, n) ==
  IF n = 0 \/ Ended(c) THEN <<c>>
                       ELSE <<c>> \o Segment(CallStep(c), n - 1)

\* The states a call goes through when no other call is under way,
\* collected one segment after the other.
RECURSIVE RunAlone(_)
RunAlone(c) ==
  LET segment == Segment(c, SegmentLength)
      reached == segment[Len(segment)]
      states == { segment[j] : j \in 1..Len(segment) }
  IN  IF Ended(reached) THEN states ELSE states \cup RunAlone(reached)

AloneStates == [ c \in ConcurrentCalls |-> RunAlone(c) ]

\* The call as it was made, from the arguments its activations hold.
CallOf(c) ==
  IF c.an.pc = "IDLE"
    THEN [ an |-> AnIdle,
           sim |-> SimCall(c.sim.car_params, c.sim.track_config,
                           c.sim.race_mode) ]
    ELSE [ an |-> [ AnIdle EXCEPT !.pc = "CALLED",
                                  !.track_name = c.an.track_name,
                                  !.current_config = c.an.current_config ],
           sim |-> SimIdle ]

\* The activations of thread t.
ThreadState(t) == [ an |-> an[t], sim |-> sim[t] ]

\* Thread t has made its call.
Calling(t) == ~(an[t].pc = "IDLE" /\ sim[t].pc = "IDLE")

C22_TwoCallsUnderWay ==
  /\ an["first"].pc = "IDLE"
  /\ sim["first"].pc = "CORNER_PHASE"
  /\ sim["first"].i > 0
  /\ an["second"].pc = "SIMULATING"
  /\ an["second"].k = 3
  /\ sim["second"].pc = "STRAIGHT_PHASE"
  /\ sim["second"].time > 0


---------------------------------------------------------------------------
(* The straight-phase integrator (specification SpecStraight) *)

\* C23: the integrator starts at 50 m/s, position 0 and time 0; every pass
\* advances the time by one step of 0.1 s and the position by the new
\* velocity times that step, and after every pass the velocity is at most
\* 100 m/s, for every car (no drag, negative drag, no power, ten times the
\* default power).
C23_VelocityAtMostHundred ==
  [][ /\ (sim.pc = "IDLE" /\ sim'.pc = "STRAIGHT_PHASE")
         => (sim'.velocity = 5000 /\ sim'.position = 0 /\ sim'.time = 0)
      /\ (sim.pc = "STRAIGHT_PHASE" /\ sim'.pc = "STRAIGHT_PHASE")
         => /\ sim'.velocity <= 10000
            /\ sim'.time = sim.time + 1
            /\ sim'.velocity_log10 = 0
                 => sim'.position = sim.position + sim'.velocity ]_vars

\* A car without drag and with ten times the default power has reached
\* 100 m/s, where every further pass would take it beyond.
C23_HeldAtTheCeiling ==
  /\ sim.pc = "STRAIGHT_PHASE"
  /\ sim.car_params = CarWith(7450000, 0)
  /\ sim.time > 0
  /\ sim.velocity = 10000
  /\ StraightContinues(sim)
  /\ StraightIterationUncapped(sim.car_params, sim.velocity, sim.position,
                               sim.time).value[1] > 10000


\* C24: in every pass of the straight-phase loop the engine force is the
\* power over max(velocity, 0.1), so no pass raises ZeroDivisionError and
\* the acceleration of every pass is finite (the velocity after it is
\* not -inf), also in the runs where the velocity falls to 0.1 m/s or
\* below.
C24_AccelerationFiniteInEveryStep ==
  [][ sim.pc = "STRAIGHT_PHASE"
      => /\ sim'.pc = "RAISED" => sim'.result.exc # "ZeroDivisionError"
         /\ sim'.pc = "STRAIGHT_PHASE" => sim'.velocity_log10 # INF_LOG10 ]_vars

\* What holds of the guard alone: no pass raises ZeroDivisionError, and a
\* pass that starts at 0.1 m/s or below in the fixed-point range changes
\* the velocity by (power / 0.1 - drag) / mass * dt.
C24_NoStepDividesByZero ==
  [][ sim.pc = "STRAIGHT_PHASE"
      => /\ sim'.pc = "RAISED" => sim'.result.exc # "ZeroDivisionError"
         /\ ( /\ sim'.pc = "STRAIGHT_PHASE"
              /\ sim.velocity_log10 = 0
              /\ sim.velocity <= 10
              /\ sim.velocity >= -FIXED_POINT_LIMIT )
            => sim'.velocity =
                 Min(10000,
                     sim.velocity
                       + ((sim.car_params.power * 10
                            - calculate_drag_force(CarState(sim.car_params,
                                                            sim.velocity)))
                           * 10) \div sim.car_params.mass) ]_vars

\* With a drag coefficient of 425 the drag of the eleventh pass is inf:
\* the acceleration is -inf and the velocity stays at -inf.
C24_InfiniteAcceleration ==
  /\ sim.pc = "STRAIGHT_PHASE"
  /\ sim.car_params = CarWith(745000, 42500)
  /\ sim.time = 11
  /\ sim.velocity_log10 = INF_LOG10

\* With a drag coefficient of 200 the velocity is below 0.1 m/s and the
\* pass from it is finite.
C24_BelowTheFloorAndFinite ==
  /\ sim.pc = "STRAIGHT_PHASE"
  /\ sim.car_params = CarWith(745000, 20000)
  /\ sim.velocity < 0
  /\ sim.velocity_log10 = 0
  /\ sim.time > 1


---------------------------------------------------------------------------
(* The corner phase (specification SpecLap) *)

\* An iteration of the corner loop has added its time to the total.
CornerAdded ==
  /\ sim.pc = "CORNER_PHASE"
  /\ sim'.pc = "CORNER_PHASE"
  /\ sim'.i = sim.i + 1

\* C25: the time a corner adds is arc_length / v_max plus the braking time
\* plus the acceleration-out term; the braking time is (v_entry - v_max) /
\* (brake_force / mass) when v_entry = min(70, 1.3 * v_estimate) exceeds
\* v_max and 0 otherwise; the acceleration-out term is the same for every
\* corner.
C25_CornerTimeWithFixedAccelerationTerm ==
  [][ CornerAdded
      => LET t == CornerTerms(sim.car_params, sim.i, sim.avg_corner_radius)
             first == CornerTerms(sim.car_params, 0, sim.avg_corner_radius)
         IN  /\ sim'.total_time - sim.total_time
                  = t.corner_time + t.brake_time + t.accel_time
             /\ t.v_entry = Min(7000, (t.v_estimate * 13) \div 10)
             /\ t.v_entry > t.v_max
                  => t.brake_time
                       = ((t.v_entry - t.v_max) * 100 * sim.car_params.mass)
                           \div sim.car_params.brake_force
             /\ t.v_entry <= t.v_max => t.brake_time = 0
             /\ t.accel_time = first.accel_time ]_vars

\* What holds of it: the sum of the three terms and the braking time, with
\* an acceleration-out term of 0.03 s per m/s of the corner's v_estimate.
C25_CornerTimeIsTheSumOfItsTerms ==
  [][ CornerAdded
      => LET t == CornerTerms(sim.car_params, sim.i, sim.avg_corner_radius)
         IN  /\ sim'.total_time - sim.total_time
                  = t.corner_time + t.brake_time + t.accel_time
             /\ t.v_entry = Min(7000, (t.v_estimate * 13) \div 10)
             /\ t.v_entry > t.v_max
                  => t.brake_time
                       = ((t.v_entry - t.v_max) * 100 * sim.car_params.mass)
                           \div sim.car_params.brake_force
             /\ t.v_entry <= t.v_max => t.brake_time = 0
             /\ t.accel_time = 3 * t.v_estimate ]_vars

\* The default car at Monza after its second corner: the first corner
\* added an acceleration-out term of about 1.71 s, the second one of
\* about 2.04 s.
C25_AccelerationTermVaries ==
  /\ sim.pc = "CORNER_PHASE"
  /\ sim.car_params = CarParameters(70, 150, 200, 220, 260, 1200, 1400)
  /\ sim.track_config = get_track_by_name("Italy")
  /\ sim.i = 2
  /\ CornerTerms(sim.car_params, 0, sim.avg_corner_radius).accel_time \div 100
       = 170
  /\ CornerTerms(sim.car_params, 1, sim.avg_corner_radius).accel_time \div 100
       = 203

\* The default car at Monaco brakes for its first corner and not for its
\* second.
C25_BrakesForTheTightCorner ==
  /\ sim.pc = "CORNER_PHASE"
  /\ sim.car_params = CarParameters(70, 150, 200, 220, 260, 1200, 1400)
  /\ sim.track_config = get_track_by_name("Monaco")
  /\ sim.i = 2
  /\ CornerTerms(sim.car_params, 0, sim.avg_corner_radius).brake_time > 0
  /\ CornerTerms(sim.car_params, 1, sim.avg_corner_radius).brake_time = 0


\* The times of the corners 0 .. n-1 added up.
RECURSIVE CornerSum(_, _, _)
CornerSum(car_params, n, avg_radius) ==
  IF n = 0 THEN 0
  ELSE CornerSum(car_params, n - 1, avg_radius)
         + CornerIteration(car_params, n - 1, avg_radius).value

\* C26: avg_radius is (circuit length in m - 1.5 * longest_straight) /
\* (corner_count * pi / 2); the radius of corner i is avg_radius times 0.7,
\* 1.0 or 1.3 for i mod 3 = 0, 1, 2; corner i adds the same time as corner
\* i - 3; and the corner time of the result is the sum over all
\* corner_count corners.
C26_RadiusCycleOfThree ==
  [][ /\ (sim.pc = "INIT" /\ sim'.pc = "STRAIGHT_PHASE")
         => /\ sim'.corner_count = sim.track_config.corner_count
            /\ sim'.avg_corner_radius
                 = ((sim.track_config.circuit_length * 1000
                       - (sim.track_config.longest_straight * 3000) \div 2)
                     * 2 * PI_DEN)
                     \div (sim.track_config.corner_count * PI_NUM)
      /\ CornerAdded
         => /\ CornerTerms(sim.car_params, sim.i,
                           sim.avg_corner_radius).corner_radius
                 = (sim.avg_corner_radius * <<7, 10, 13>>[(sim.i % 3) + 1])
                     \div 10
            /\ sim.i >= 3
                 => sim'.total_time - sim.total_time
                      = CornerIteration(sim.car_params, sim.i - 3,
                                        sim.avg_corner_radius).value
      /\ (sim.pc = "CORNER_PHASE" /\ sim'.pc = "DONE")
         => /\ sim.i = sim.corner_count
            /\ sim'.result.corner_time
                 = CornerSum(sim.car_params, sim.corner_count,
                             sim.avg_corner_radius) ]_vars

\* The default car at Monaco has returned: 19 corners, the fourth one with
\* the radius and the time of the first, the second one with a larger
\* radius and another time.
C26_NineteenCornersAtMonaco ==
  /\ sim.pc = "DONE"
  /\ sim.car_params = CarParameters(70, 150, 200, 220, 260, 1200, 1400)
  /\ sim.track_config = get_track_by_name("Monaco")
  /\ sim.corner_count = 19
  /\ sim.i = 19
  /\ CornerTerms(sim.car_params, 3, sim.avg_corner_radius).corner_radius
       = CornerTerms(sim.car_params, 0, sim.avg_corner_radius).corner_radius
  /\ CornerTerms(sim.car_params, 1, sim.avg_corner_radius).corner_radius
       > CornerTerms(sim.car_params, 0, sim.avg_corner_radius).corner_radius
  /\ CornerIteration(sim.car_params, 1, sim.avg_corner_radius)
       # CornerIteration(sim.car_params, 0, sim.avg_corner_radius)
  /\ sim.result.corner_time
       = CornerSum(sim.car_params, 19, sim.avg_corner_radius)


---------------------------------------------------------------------------
(* The caller's objects (specification SpecFrame) *)

\* Up to n + 1 consecutive states of a call from c on, when nothing was
\* called before it.
RECURSIVE FrameSegment(_, _)
FrameSegment(c, n) ==
  IF n = 0 \/ Ended(c) THEN <<c>>
                       ELSE <<c>> \o FrameSegment(FrameCallStep(c), n - 1)

\* The states a call goes through when nothing was called before it,
\* collected one segment after the other.
RECURSIVE FrameRunAlone(_)
FrameRunAlone(c) ==
  LET segment == FrameSegment(c, SegmentLength)
      reached == segment[Len(segment)]
      states == { segment[j] : j \in 1..Len(segment) }
  IN  IF Ended(reached) THEN states ELSE states \cup FrameRunAlone(reached)

FrameAloneStates ==
  [ c \in UNION { FrameCalls(h) : h \in FrameHeaps } |-> FrameRunAlone(c) ]

\* The call as it was made, from the arguments its activations hold.
FrameCallOf(c) ==
  IF c.an.pc = "IDLE"
    THEN [ an |-> AnIdle,
           sim |-> SimCall(c.sim.car_params, c.sim.track_config,
                           c.sim.race_mode) ]
  ELSE IF c.an.track_name = ""
    THEN [ an |-> [ AnIdle EXCEPT !.pc = "PREDICTING",
                                  !.current_params = c.an.current_params,
                                  !.track_config = c.an.track_config,
                                  !.k = 1 ],
           sim |-> SimCall(c.an.current_params, c.an.track_config, FALSE) ]
    ELSE [ an |-> [ AnIdle EXCEPT !.pc = "CALLED",
                                  !.track_name = c.an.track_name,
                                  !.current_config = c.an.current_config ],
           sim |-> SimIdle ]

---------------------------------------------------------------------------
(* Two analyses of one track (specification SpecPair) *)

\* Both analyses of the track have returned.
BothReturned ==
  /\ an.pc = "DONE"
  /\ last # NoLast
  /\ last.pc = "DONE"

\* C28: two analyses of the same track with different current_config
\* mappings agree on qualifying_lap_time, race_lap_time, optimal_config,
\* top_speed_estimate, avg_corner_speed and setup_recommendations, and
\* differ in nothing but time_gain_quali and time_gain_race.
C28_OnlyTheGainsFollowTheCurrentConfig ==
  BothReturned
    => /\ an.current_config # last.current_config
       /\ an.track_name = last.track_name
       /\ \A f \in { "qualifying_lap_time", "race_lap_time",
                     "top_speed_estimate", "avg_corner_speed" } :
            an.result[f] = last.result[f]
       /\ an.result.optimal_config = last.result.optimal_config
       /\ an.result.setup_recommendations = last.result.setup_recommendations
       /\ [ an.result EXCEPT !.time_gain_quali = 0, !.time_gain_race = 0 ]
            = [ last.result EXCEPT !.time_gain_quali = 0,
                                   !.time_gain_race = 0 ]

\* Monaco analysed with the empty mapping and then with the low-downforce
\* values: the two results differ in both gains.
C28_MonacoWithTwoMappings ==
  /\ BothReturned
  /\ an.track_name = "Monaco"
  /\ last.current_config = <<>>
  /\ an.current_config = FullConfig
  /\ an.result.time_gain_quali # last.result.time_gain_quali
  /\ an.result.time_gain_race # last.result.time_gain_race


---------------------------------------------------------------------------
(* The registry tracks in the corner phase (specification SpecRegistry) *)

\* C29: every registry track has a circuit length > 0, at least one corner
\* and 1.5 times its longest straight below its length in metres; in every
\* lap of a registry track the average corner radius is strictly positive,
\* the v_max of every corner is strictly positive, and no lap raises.
C29_RegistryTracksHavePositiveCorners ==
  /\ \A k \in 1..Len(TRACK_CONFIGS) :
       LET track == TRACK_CONFIGS[k][2]
       IN  /\ track.circuit_length > 0
           /\ track.corner_count >= 1
           /\ 3 * track.longest_straight < 2 * track.circuit_length
  /\ sim.pc # "RAISED"
  /\ sim.pc \in {"STRAIGHT_PHASE", "CORNER_PHASE", "DONE"}
       => sim.avg_corner_radius > 0
  /\ (sim.pc = "CORNER_PHASE" /\ sim.i < sim.corner_count)
       => LET t == CornerTerms(sim.car_params, sim.i, sim.avg_corner_radius)
          IN  /\ t.corner_radius > 0
              /\ t.v_max > 0
              /\ t.corner_time > 0

\* The car without lift is in the last corner of Baku, the track with the
\* longest straight (2200 m of 6003 m).
C29_LastCornerOfBaku ==
  /\ sim.pc = "CORNER_PHASE"
  /\ sim.track_config = get_track_by_name("Azerbaijan")
  /\ sim.car_params = CarParameters(70, 0, 0, 220, 260, 1200, 1400)
  /\ sim.corner_count = 20
  /\ sim.i = 19
  /\ CornerTerms(sim.car_params, sim.i, sim.avg_corner_radius).v_max > 0


---------------------------------------------------------------------------
(* The breakdown of a lap (specification SpecLap) *)

\* C30: lap_time_seconds is straight_time + corner_time in qualifying mode
\* and that sum times 1.007, then times 1.003, in race mode, where the two
\* parts no longer add up to the total; and a lap returns the same
\* straight_time and corner_time in race mode as the lap of the same car
\* and track returned in qualifying mode just before (and the other way
\* round).
C30_PenaltyOnTheTotalOnly ==
  sim.pc = "DONE" =>
    LET r == sim.result
        parts == r.straight_time + r.corner_time
    IN  /\ ~sim.race_mode => r.lap_time_seconds = parts
        /\ sim.race_mode
             => /\ r.lap_time_seconds
                     = (((parts * 1007) \div 1000) * 1003) \div 1000
                /\ r.lap_time_seconds > parts
        /\ (SameTrackAsLast /\ sim.car_params = last.car_params
              /\ sim.race_mode # last.race_mode)
             => /\ r.straight_time = last.outcome.value.straight_time
                /\ r.corner_time = last.outcome.value.corner_time

\* The default car has returned from Monza in race mode after a qualifying
\* lap there: 18.6 s and 55.996 s in both, a total of 74.596 s in
\* qualifying and of more than 75.3 s in race mode.
C30_RaceLapOfMonza ==
  /\ SameTrackAsLast
  /\ sim.track_config = get_track_by_name("Monza")
  /\ sim.car_params = CarParameters(70, 150, 200, 220, 260, 1200, 1400)
  /\ sim.car_params = last.car_params
  /\ sim.race_mode
  /\ ~last.race_mode
  /\ sim.result.straight_time = 186000
  /\ sim.result.corner_time = 559960
  /\ last.outcome.value.lap_time_seconds = 745960
  /\ sim.result.lap_time_seconds > 753000

=============================================================================
